---- MODULE Spec2Model ----
(***************************************************************************)
(* A model of awt-ci: the persisted watcher state (state.ts), the watch    *)
(* poll loop (watch.ts), the one-shot CI gather (gather-ci.ts), the log    *)
(* curation engine (report.ts) and the comment reconciler (comments.ts).   *)
(*                                                                         *)
(* Each component has its own specification over a shared set of           *)
(* variables; a specification holds the other components' variables fixed. *)
(***************************************************************************)
EXTENDS Integers, Sequences, FiniteSets, TLC

VARIABLES
    \* ---- the .awt directory (state.ts) ----
    fs,         \* file name -> [exists, text]: the files of .awt
    wpc,        \* writeState: position of the running call
    wval,       \* writeState: the AwtState being written
    wpos,       \* writeState: tokens of the serialisation handed to the OS so far
    wprev,      \* value state.json held when the running writeState was called
    rpc,        \* readState (another process): position
    rino,       \* readState: the open file its descriptor refers to
    rbuf,       \* readState: content read so far
    rres,       \* readState: value returned
    rseen,      \* values state.json held at some point of the running readState
    \* ---- the watch loop (watch.ts) ----
    pc,         \* position of the watch process in its poll loop
    state,      \* the in-memory AwtState (watch.ts line 67)
    postPush,   \* watch.ts line 78
    notifiedNoPrForSha, \* watch.ts line 79
    pasteRes,   \* result of the last pasteAndEnter of a failure report
    now,        \* the clock read by new Date()
    tallied,    \* the deliveries that are counted: "failure", "success" or "rebase"
    deliveries, \* counted up to 2: the failure reports pasted for the commit Watched,
                \* the "CI passed" notifications sent for it, or the rebase reports
                \* pasted since the last detected push
    caught,     \* did the previous iteration end in the exception handler
    idleSec,    \* watch.ts line 47
    lastSig,    \* watch.ts line 75
    idleStart,  \* watch.ts line 76
    lastNotifiedDormant, \* watch.ts line 77
    \* ---- the curation of one job log (report.ts) ----
    cpc,        \* position of the curateJobExcerpt call
    raw,        \* the raw log handed to curateJobExcerpt
    curated,    \* what curateJobExcerpt returned: excerpt and counts
    \* ---- the one-shot gather (gather-ci.ts) ----
    gpc,        \* position of runGatherCi
    args,       \* GatherCiArgs: force, skipClaude
    runsSince,  \* the runs listWorkflowRunsSince returned
    queue,      \* the runs whose extract is still to be fetched
    listed,     \* run id -> the jobs listJobsForRun returned for it
    runExtracts, \* gather-ci.ts line 92
    calls,      \* upstream calls made: job lists, job logs, summaries
    report,     \* the report file: written, its run extracts, its summary
    stdout,     \* was the console summary printed
    exitCode,   \* process.exitCode
    \* ---- the comment reconciler (comments.ts) ----
    kpc,        \* position of the gatherComments call
    fetched,    \* what listCommentsRest returned
    opts,       \* GatherCommentsOptions: cap, authors, states
    snapshot,   \* the CommentSnapshot returned
    \* ---- the report module across calls (report.ts) ----
    lastIndex,  \* regular expression -> its lastIndex property
    history,    \* the curateJobExcerpt calls made so far: raw log and result
    \* ---- one call of escapeXmlAttr (report.ts) ----
    epc,        \* position of the call
    estr,       \* the string handed to escapeXmlAttr, a sequence of characters
    eout,       \* the string returned
    \* ---- the target resolvers (resolve.ts, gather.ts) ----
    tpc,        \* position of the resolution
    env,        \* what the resolver is given and finds: arguments, git, GitHub
    resolved,   \* its outcome: a Target, or the error it ended with
    \* ---- the comment fetch (Gh.listCommentsRest) ----
    lpc,        \* position in listCommentsRest
    server,     \* what GitHub holds and which requests fail
    lists,      \* issueComments, reviewComments, reviews
    threw,      \* per source: did its catch block run
    \* ---- the watch loop as seen from outside ----
    slept,      \* the base interval of the loop's latest cadence sleep
    pushSeen,   \* has a push been detected, by this process or a recorded one
    stretch,    \* the signature the pane shows and since when it has shown it
    world,      \* what git and GitHub answer while nothing changes there
    \* ---- .awt/state.json shared by two writers ----
    disk,       \* names -> file, file -> text
    procs,      \* per writer: position, in-memory data, open descriptor
    \* ---- one classification of a commit's runs (github.ts, gather-ci.ts) ----
    apc,        \* position of the call
    shaRuns,    \* the workflow runs listed for the commit
    agg,         \* the aggregate conclusion and the runs picked out
    \* ---- the parent backfill of listCommentsRest (part_003 624-660) ----
    bpc,        \* position: off, input, done
    reviewList, \* what the page loop of the review comments left
    backfill,   \* what the backfill did
    \* ---- the report builders (report.comments.ts, report.ts) ----
    xpc,        \* position: off, input, done
    rin,        \* the report built, and the value handed to it in one field
    rout,       \* the texts the report holds for that value, place by place
    \* ---- the failure bundle (ci.ts gatherFailures) ----
    fpc,        \* position: off, input, done
    failIn,     \* the failing jobs and their logs as GitHub answers, the limits
    bundle      \* the FailureBundle returned: its logs

fsVars == <<fs, wpc, wval, wpos, wprev, rpc, rino, rbuf, rres, rseen>>
fsProcVars == <<wpc, wval, wpos, wprev, rpc, rino, rbuf, rres, rseen>>
idleVars == <<idleSec, lastSig, idleStart, lastNotifiedDormant>>
watchVars == <<pc, state, postPush, notifiedNoPrForSha, pasteRes, now,
               tallied, deliveries, caught, idleVars>>

curateVars == <<cpc, raw, curated>>
gatherVars == <<gpc, args, runsSince, queue, listed, runExtracts, calls, report,
                stdout, exitCode>>
commentVars == <<kpc, fetched, opts, snapshot>>
pureVars == <<lastIndex, history>>
escapeVars == <<epc, estr, eout>>
resolveVars == <<tpc, env, resolved>>
fetchVars == <<lpc, server, lists, threw>>
sharedVars == <<disk, procs>>
classifyVars == <<apc, shaRuns, agg>>
backfillVars == <<bpc, reviewList, backfill>>
reportVars == <<xpc, rin, rout>>
bundleVars == <<fpc, failIn, bundle>>
lastVars == <<classifyVars, backfillVars, reportVars, bundleVars>>
lateVars == <<slept, pushSeen, stretch, world, sharedVars, lastVars>>
moreVars == <<pureVars, escapeVars, resolveVars, fetchVars, lateVars>>
vars == <<fsVars, watchVars, curateVars, gatherVars, commentVars, moreVars>>

----------------------------------------------------------------------------
(* Values *)

None == "none"

\* Commit ids the remote head can take.
Shas == {"c1", "c2"}

\* Logical timestamps (pushed_at).
MaxNow == 1
Times == 0..MaxNow

\* src/src/types.ts AwtState: every field is optional (None: absent).
\* last_push_by_branch is never read or written by watch.ts and is left out.
NoPush == [sha |-> None, pushed_at |-> 0]

AwtStates ==
    { s \in [last_push : {NoPush} \cup [sha : Shas, pushed_at : Times],
             last_ci_seen_for_sha : {None} \cup Shas,
             last_ci_conclusion : {None, "failure", "success"}] :
        (s.last_ci_seen_for_sha = None) <=> (s.last_ci_conclusion = None) }

\* The state readState yields for a missing or malformed file: {}
EmptyState ==
    [last_push |-> NoPush, last_ci_seen_for_sha |-> None, last_ci_conclusion |-> None]

----------------------------------------------------------------------------
(* JSON text of an AwtState: a sequence of tokens <<kind, key, value>>.     *)
(* JSON.stringify leaves out the absent fields; JSON.parse throws on a text *)
(* that is not a complete object.                                           *)

TokOpen == <<"{", "", 0>>
TokClose == <<"}", "", 0>>

PushTokens(s) ==
    IF s.last_push.sha = None THEN <<>>
    ELSE << <<"str", "last_push.sha", s.last_push.sha>>,
            <<"num", "last_push.pushed_at", s.last_push.pushed_at>> >>

SeenTokens(s) ==
    IF s.last_ci_seen_for_sha = None THEN <<>>
    ELSE << <<"str", "last_ci_seen_for_sha", s.last_ci_seen_for_sha>> >>

ConclTokens(s) ==
    IF s.last_ci_conclusion = None THEN <<>>
    ELSE << <<"str", "last_ci_conclusion", s.last_ci_conclusion>> >>

\* JSON.stringify(data, null, 2)
JsonStringify(s) ==
    <<TokOpen>> \o PushTokens(s) \o SeenTokens(s) \o ConclTokens(s) \o <<TokClose>>

\* Is the text one complete JSON object
JsonWellFormed(txt) ==
    /\ Len(txt) >= 2
    /\ txt[1] = TokOpen
    /\ txt[Len(txt)] = TokClose
    /\ \A i \in 2..(Len(txt) - 1) : txt[i][1] \in {"str", "num"}

\* The value of key k in a well-formed text (the last occurrence wins), or d.
JsonGet(txt, k, d) ==
    LET hits == {i \in 1..Len(txt) : txt[i][2] = k}
    IN IF hits = {} THEN d
       ELSE txt[CHOOSE i \in hits : \A j \in hits : j <= i][3]

\* JSON.parse(raw) as AwtState, for a well-formed text
JsonParse(txt) ==
    LET sha == JsonGet(txt, "last_push.sha", None)
    IN [last_push |->
            IF sha = None THEN NoPush
            ELSE [sha |-> sha, pushed_at |-> JsonGet(txt, "last_push.pushed_at", 0)],
        last_ci_seen_for_sha |-> JsonGet(txt, "last_ci_seen_for_sha", None),
        last_ci_conclusion |-> JsonGet(txt, "last_ci_conclusion", None)]

----------------------------------------------------------------------------
(* The two files of .awt that state.ts touches *)

StateFile == "state.json"
TmpFile == "state.json.tmp"
FileNames == {StateFile, TmpFile}

NoFile == [exists |-> FALSE, text |-> <<>>]

\* open(name, O_WRONLY|O_CREAT|O_TRUNC): the first step of fs.writeFile
FsOpenTrunc(f, name) ==
    [f EXCEPT ![name] = [exists |-> TRUE, text |-> <<>>]]

\* write(fd, chunk) on the file called name
FsAppend(f, name, chunk) ==
    [f EXCEPT ![name].text = @ \o chunk]

\* rename(from, to): atomically makes `to` name the file `from` named
\* (nothing happens when both name the same file)
FsRename(f, from, to) ==
    IF from = to THEN f
    ELSE [f EXCEPT ![to] = f[from], ![from] = NoFile]

\* fs.readFile(p): the content of the file, or ENOENT
FsContent(f, name) == f[name]

\* A readState without its catch block: the error is what the caller gets.
StateOfContent_NoCatch(c) ==
    IF c.exists /\ JsonWellFormed(c.text) THEN JsonParse(c.text)
    ELSE [error |-> "SyntaxError"]

\* state.ts readState lines 7-12: {} when readFile or JSON.parse throws
StateOfContent(c) ==
    IF c.exists /\ JsonWellFormed(c.text) THEN JsonParse(c.text) ELSE EmptyState

\* state.ts readState, run without interleaving
readState(f) == StateOfContent(FsContent(f, StateFile))

\* A writeState that stages its text in state.json itself.
WriteTarget_InPlace == StateFile

\* state.ts writeState line 22: tmp = `${p}.tmp`
WriteTarget == TmpFile

\* state.ts writeState, run to completion without interleaving
writeState(f, data) ==
    LET opened == FsOpenTrunc(f, WriteTarget)
        written == FsAppend(opened, WriteTarget, JsonStringify(data))
    IN FsRename(written, WriteTarget, StateFile)

----------------------------------------------------------------------------
(* state.ts step by step: one writeState call at a time (the watch loop is  *)
(* sequential), a process kill at any step, and a readState of another      *)
(* process (gather.ts reads the same file) at any point.                    *)

\* An .awt directory as a previous run can have left it.
InitialFs(cur, stale) ==
    [n \in FileNames |-> IF n = StateFile THEN cur ELSE stale]

\* States a previous run can have persisted.
SeedStates ==
    { EmptyState,
      [EmptyState EXCEPT !.last_push = [sha |-> "c1", pushed_at |-> 0]],
      [last_push |-> [sha |-> "c1", pushed_at |-> 0],
       last_ci_seen_for_sha |-> "c1", last_ci_conclusion |-> "failure"] }

SeedContents ==
    {NoFile} \cup {[exists |-> TRUE, text |-> JsonStringify(s)] : s \in SeedStates}

\* A temp file left behind by a killed writeState: a prefix of a text.
StaleTmp ==
    {NoFile, [exists |-> TRUE, text |-> <<TokOpen>>]}

\* The reader's descriptor: it follows the file it opened, which stays as it
\* was once a rename has put another file under the name (detached).
NoHandle == [detached |-> FALSE, text |-> <<>>]

\* The text behind the reader's descriptor.
RsText == IF rino.detached THEN rino.text ELSE fs[StateFile].text

InitFsProcs ==
    /\ wpc = "idle" /\ wval = EmptyState /\ wpos = 0 /\ wprev = NoFile
    /\ rpc = "idle" /\ rino = NoHandle /\ rbuf = <<>> /\ rres = EmptyState /\ rseen = {}

InitFs ==
    /\ \E cur \in SeedContents, stale \in StaleTmp : fs = InitialFs(cur, stale)
    /\ InitFsProcs

\* watch.ts calls writeState(root, state)   (state.ts lines 15-22: mkdir, paths)
WsCall(v) ==
    /\ wpc \in {"idle", "returned"}
    /\ wpc' = "open" /\ wval' = v /\ wpos' = 0
    /\ wprev' = FsContent(fs, StateFile)
    /\ UNCHANGED <<fs, rpc, rino, rbuf, rres, rseen>>

\* state.ts line 23, fs.writeFile(tmp, ...): open for writing, truncating
WsOpen ==
    /\ wpc = "open"
    /\ fs' = FsOpenTrunc(fs, WriteTarget)
    /\ wpc' = "write"
    /\ UNCHANGED <<wval, wpos, wprev, rpc, rino, rbuf, rres, rseen>>

\* state.ts line 23, fs.writeFile(tmp, ...): one write of the next part of the text
WsWrite ==
    /\ wpc = "write"
    /\ wpos < Len(JsonStringify(wval))
    /\ fs' = FsAppend(fs, WriteTarget, <<JsonStringify(wval)[wpos + 1]>>)
    /\ wpos' = wpos + 1
    /\ UNCHANGED <<wpc, wval, wprev, rpc, rino, rbuf, rres, rseen>>

\* state.ts line 23, fs.writeFile(tmp, ...): all written, close
WsClose ==
    /\ wpc = "write"
    /\ wpos = Len(JsonStringify(wval))
    /\ wpc' = "rename"
    /\ UNCHANGED <<fs, wval, wpos, wprev, rpc, rino, rbuf, rres, rseen>>

\* state.ts line 24, fs.rename(tmp, p), and the return of writeState
WsRename ==
    /\ wpc = "rename"
    /\ fs' = FsRename(fs, WriteTarget, StateFile)
    /\ wpc' = "returned"
    /\ rseen' = IF rpc = "read" THEN rseen \cup {wval} ELSE rseen
    /\ rino' = IF rpc = "read" /\ ~rino.detached /\ WriteTarget # StateFile
               THEN [detached |-> TRUE, text |-> fs[StateFile].text]
               ELSE rino
    /\ UNCHANGED <<wval, wpos, wprev, rpc, rbuf, rres>>

\* The writing process is killed at any step of writeState (or after it).
WsKill ==
    /\ wpc # "idle"
    /\ wpc' = "idle" /\ wval' = EmptyState /\ wpos' = 0 /\ wprev' = NoFile
    /\ UNCHANGED <<fs, rpc, rino, rbuf, rres, rseen>>

\* state.ts line 8, fs.readFile(p): open; ENOENT is caught (line 10) and yields {}
RsOpen ==
    /\ rpc \in {"idle", "done"}
    /\ rseen' = {readState(fs)}
    /\ rbuf' = <<>> /\ rino' = NoHandle /\ rres' = EmptyState
    /\ rpc' = IF fs[StateFile].exists THEN "read" ELSE "done"
    /\ UNCHANGED <<fs, wpc, wval, wpos, wprev>>

\* state.ts line 8, fs.readFile(p): one read of the next part of the file
RsRead ==
    /\ rpc = "read"
    /\ Len(rbuf) < Len(RsText)
    /\ rbuf' = Append(rbuf, RsText[Len(rbuf) + 1])
    /\ UNCHANGED <<fs, wpc, wval, wpos, wprev, rpc, rino, rres, rseen>>

\* state.ts lines 8-12: end of file, close, JSON.parse (a throw yields {})
RsEof ==
    /\ rpc = "read"
    /\ Len(rbuf) >= Len(RsText)
    /\ rres' = StateOfContent([exists |-> TRUE, text |-> rbuf])
    /\ rpc' = "done" /\ rino' = NoHandle /\ rbuf' = <<>>
    /\ UNCHANGED <<fs, wpc, wval, wpos, wprev, rseen>>


----------------------------------------------------------------------------
\* C3: writeState is atomic for crashes and readers. At every step of a
\* writeState call, and after a kill at any step, state.json holds the complete
\* text of the previous value or of the value being written; a readState that
\* overlaps a writeState returns a value state.json held during the read, never
\* the value of a partial text; and once writeState has returned, reading
\* state.json yields exactly the value written.
CompleteText(c) ==
    ~c.exists \/ (JsonWellFormed(c.text) /\ JsonStringify(JsonParse(c.text)) = c.text)

C3_WriteStateAtomic ==
    /\ CompleteText(FsContent(fs, StateFile))
    /\ wpc \in {"open", "write", "rename"} =>
          FsContent(fs, StateFile) = wprev
    /\ wpc = "returned" =>
          /\ FsContent(fs, StateFile).text = JsonStringify(wval)
          /\ readState(fs) = wval
    /\ rpc = "done" => rres \in rseen

\* A reader that opened state.json before the rename finishes after it, while
\* the writer has replaced a different previous value.
C3_Witness ==
    /\ wpc = "returned"
    /\ wprev.exists /\ wprev.text # JsonStringify(wval)
    /\ wval.last_ci_seen_for_sha # None
    /\ rpc = "done" /\ rres # wval /\ Cardinality(rseen) = 2

----------------------------------------------------------------------------
(* readState on a state file that is missing or damaged *)

\* Texts of state.json that JSON.parse rejects: the empty file, a text cut
\* short, a text with its start missing
CorruptTexts ==
    { <<>>,
      <<TokOpen>>,
      <<TokOpen, <<"str", "last_push.sha", "c1">> >>,
      <<TokOpen, <<"str", "last_push.sha", "c1">>,
        <<"num", "last_push.pushed_at", 0>>,
        <<"str", "last_ci_seen_for_sha", "c1">> >>,
      << <<"str", "last_ci_conclusion", "failure">>, TokClose>> }

CorruptContents == {[exists |-> TRUE, text |-> t] : t \in CorruptTexts}

\* The .awt directory a readState can meet: no state file, a complete one or
\* a damaged one
InitFsAnyContent ==
    /\ \E cur \in SeedContents \cup CorruptContents, stale \in StaleTmp :
          fs = InitialFs(cur, stale)
    /\ InitFsProcs

\* C21: readState never fails: when state.json is missing, and when the text
\* read from it is not valid JSON, the call returns the empty state; it always
\* returns an AwtState.
C21_ReadStateNeverFails ==
    /\ [](rpc = "done" => rres \in AwtStates)
    /\ []((rpc = "done" /\ ~fs[StateFile].exists) => rres = EmptyState)
    /\ [][(rpc = "read" /\ rpc' = "done" /\ ~JsonWellFormed(rbuf)) =>
              rres' = EmptyState]_vars

\* a readState has returned the empty state for a state file that holds a
\* damaged text
C21_Witness ==
    /\ rpc = "done"
    /\ fs[StateFile].exists
    /\ fs[StateFile].text \in CorruptTexts \ {<<>>}
    /\ rres = EmptyState

----------------------------------------------------------------------------
(* GitHub as the watcher sees it (github.ts) *)

\* A set that counts a neutral conclusion as a failure.
FailureLike_WithNeutral == {"failure", "timed_out", "cancelled", "neutral"}

FailureLike == {"failure", "timed_out", "cancelled"}

Run(st, concl) == [status |-> st, conclusion |-> concl]

\* The run lists a commit can have: none yet, one in progress, one failed,
\* one passed, one neutral, one failed beside one still running.
RunLists ==
    { <<>>,
      <<Run("in_progress", None)>>,
      <<Run("completed", "failure")>>,
      <<Run("completed", "success")>>,
      <<Run("completed", "neutral")>>,
      <<Run("completed", "failure"), Run("in_progress", None)>> }

SeqRange(q) == {q[i] : i \in 1..Len(q)}

\* github.ts Gh.latestCiForSha lines 246-262: the aggregate conclusion
latestCiForSha(runs) ==
    LET allCompleted == Len(runs) > 0 /\ \A r \in SeqRange(runs) : r.status = "completed"
        anyFailed == \E r \in SeqRange(runs) :
                        r.status = "completed" /\ r.conclusion \in FailureLike
    IN IF ~allCompleted THEN None
       ELSE IF anyFailed THEN "failure"
       ELSE IF \A r \in SeqRange(runs) : r.conclusion = "success" THEN "success"
       ELSE "neutral"

\* ci.ts gatherFailures lines 13-19: is there a bundle (null when the commit has
\* no run or no failure-like run)
HasBundle(runs) ==
    /\ Len(runs) > 0
    /\ \E r \in SeqRange(runs) : r.conclusion \in FailureLike

MergeableStates == {"clean", "dirty", "behind"}

----------------------------------------------------------------------------
(* The watch loop (watch.ts lines 161-347) *)

Sat2(n) == IF n >= 2 THEN 2 ELSE n + 1

\* The commit whose deliveries the counters follow (the commits are alike: any one)
Watched == "c1"

\* A loop whose handler lets the exception go: watch() ends.
Catch_Rethrow == "escaped"

\* watch.ts lines 343-346: an exception of the iteration ends in the handler
Catch == "backoff"

\* What a writeState that throws leaves behind: nothing done (mkdir or open
\* failed) or a temp file that was opened and not renamed (the write or the
\* rename failed). The loop never reads the temp file and the next writeState
\* truncates it, so its text is not kept here: it is left empty.
FailedWrites(f, data) ==
    { f, FsOpenTrunc(f, WriteTarget) }

\* state.last_ci_seen_for_sha !== state.last_push.sha (watch.ts lines 268, 322)
NotSeen(s) == s.last_ci_seen_for_sha # s.last_push.sha

\* A commit marked as seen with the conclusion left as it was.
MarkSeen_ShaOnly(s, concl) ==
    [s EXCEPT !.last_ci_seen_for_sha = s.last_push.sha]

\* watch.ts lines 316-317 and 329-330
MarkSeen(s, concl) ==
    [s EXCEPT !.last_ci_seen_for_sha = s.last_push.sha, !.last_ci_conclusion = concl]

\* The deliveries a behaviour counts
Tallies == {"failure", "success", "rebase"}

\* one more delivery of kind k, for the commit sha, when that is what is counted
Tally(k, sha) ==
    IF tallied = k /\ (k = "rebase" \/ sha = Watched) THEN Sat2(deliveries) ELSE deliveries

\* watch.ts line 76: idleStart is null until a signature was seen (line 168)
NoStart == [set |-> FALSE, at |-> 0]
StartedAt(t) == [set |-> TRUE, at |-> t]

\* watch.ts lines 45-47 and 67-79: the state is loaded, the locals are set
\*   kinds: the deliveries a behaviour may count
\*   secs:  the values of idleSec
InitWatchWith(kinds, secs) ==
    /\ pc = "top"
    /\ state = readState(fs)
    /\ postPush = FALSE
    /\ notifiedNoPrForSha = None
    /\ pasteRes = None
    /\ now = 0
    /\ tallied \in kinds
    /\ deliveries = 0
    /\ caught = FALSE
    /\ idleSec \in secs
    /\ lastSig = None
    /\ idleStart = NoStart
    /\ lastNotifiedDormant = FALSE

\* an idleSec no run of the clock reaches: the dormant notice is never due
LongIdle == {MaxNow + 1}

InitWatch == InitWatchWith(Tallies, LongIdle)

\* What one poll observes of the world. Pushes, CI runs and the pull request
\* change at any time between two polls, so each poll draws its observations:
\*   obs:  what remoteHeadSha returned (None: no such ref, or git failed)
\*   pr:   the pull request the two lookups ended with (0: none, or both failed)
\*   ms:   getPrLite's mergeable_state (None: getPrLite failed)
\*   ci:   the conclusion latestCiForSha returned (None also when it failed)
\* getPrLite is called only with a pull request (line 224) and latestCiForSha
\* only when the pull request is neither dirty nor behind (line 262): what is
\* not asked for is None.
\* the signatures paneHistorySig returns: of a pane that does not change, and
\* of one that has changed
StillPane == "sig1"
PaneSigs == {StillPane, "sig2"}

PrNumbers == {0, 1}
PrLiteStates == MergeableStates \cup {None}

\* watch.ts lines 263-265: latestCiForSha(...).catch(() => ({conclusion: null}))
CiConclusions == {latestCiForSha(rl) : rl \in RunLists}

Observations ==
    { o \in [obs : Shas \cup {None}, pr : PrNumbers, ms : PrLiteStates,
             ci : CiConclusions] :
        /\ o.pr = 0 => o.ms = None
        /\ o.ms # "clean" => o.ci = None }

\* A notice sent whether or not one was sent before.
DormantDue_Unarmed(s, start, sec, flag, t) ==
    s.last_push = NoPush /\ start.set /\ t - start.at >= sec

\* watch.ts lines 83-88: the condition of maybeNotifyDormant
DormantDue(s, start, sec, flag, t) ==
    s.last_push = NoPush /\ start.set /\ t - start.at >= sec /\ ~flag

\* watch.ts lines 163-268 and 320-323: one poll up to the point where the
\* iteration has decided what to deliver.
\*   sig: the pane signature paneHistorySig returned
\*   wr: did the writeState of a detected push succeed
Poll(sig, obs, pr, ms, ci, wr) ==
    /\ pc = "top"
    /\ LET pushed == obs # None /\ obs # state.last_push.sha
           st1 == IF pushed
                  THEN [state EXCEPT !.last_push = [sha |-> obs, pushed_at |-> now]]
                  ELSE state
           \* lines 165-172
           changed == sig # lastSig
           dormant == /\ ~changed /\ ~postPush
                      /\ DormantDue(state, idleStart, idleSec, lastNotifiedDormant, now)
       IN /\ lastSig' = sig
          /\ idleStart' = IF changed THEN StartedAt(now) ELSE idleStart
          /\ lastNotifiedDormant' = IF changed THEN FALSE
                                    ELSE IF dormant THEN TRUE ELSE lastNotifiedDormant
          /\ UNCHANGED idleSec
          /\ deliveries' = IF tallied = "dormant"
                           THEN (IF changed THEN 0
                                 ELSE IF dormant THEN Sat2(deliveries) ELSE deliveries)
                           ELSE IF pushed /\ tallied = "rebase" THEN 0 ELSE deliveries
          /\ IF pushed /\ ~wr
             THEN \* lines 188-192: state mutated, writeState throws
                  /\ state' = st1
                  /\ fs' \in FailedWrites(fs, st1)
                  /\ pc' = Catch
                  /\ caught' = TRUE
                  /\ UNCHANGED <<postPush, notifiedNoPrForSha>>
             ELSE LET pp1 == IF pushed THEN TRUE ELSE postPush
                      nn1 == IF pushed THEN None ELSE notifiedNoPrForSha
                      sha == st1.last_push.sha
                  IN /\ wr
                     /\ state' = st1
                     /\ fs' = IF pushed THEN writeState(fs, st1) ELSE fs
                     /\ postPush' = pp1
                     \* lines 209-221
                     /\ notifiedNoPrForSha' =
                           IF pp1 /\ pr = 0 /\ sha # None /\ nn1 # sha THEN sha ELSE nn1
                     \* lines 223-335
                     /\ pc' = IF pr = 0 \/ sha = None \/ ms = None THEN "sleep"
                              ELSE IF ms \in {"dirty", "behind"} THEN "rebase"
                              ELSE IF ci = "failure" /\ NotSeen(st1) THEN "gather"
                              ELSE IF ci = "success" /\ NotSeen(st1) THEN "notify_success"
                              ELSE "sleep"
                     /\ UNCHANGED caught
    /\ UNCHANGED <<pasteRes, now, tallied>>

\* watch.ts lines 251-261: the rebase report is pasted (and notified when ok)
PasteRebase(res) ==
    /\ pc = "rebase"
    /\ IF res = "throw"
       THEN /\ pc' = Catch /\ caught' = TRUE /\ UNCHANGED deliveries
       ELSE /\ pc' = "sleep"
            /\ deliveries' = Tally("rebase", state.last_push.sha)
            /\ UNCHANGED caught
    /\ UNCHANGED <<fs, state, postPush, notifiedNoPrForSha, pasteRes, now, tallied,
                   idleVars>>

\* watch.ts lines 270-304: gatherFailures, summarizeFailures, comments, payload
\*   runs: the runs gatherFailures' own latestCiForSha lists
\*   ok: did the GitHub calls of gatherFailures answer
Gather(runs, ok) ==
    /\ pc = "gather"
    /\ IF ~ok
       THEN pc' = Catch /\ caught' = TRUE
       ELSE /\ pc' = IF HasBundle(runs) THEN "paste" ELSE "sleep"
            /\ UNCHANGED caught
    /\ UNCHANGED <<fs, state, postPush, notifiedNoPrForSha, pasteRes, now,
                   tallied, deliveries, idleVars>>

\* watch.ts lines 305-309: pasteAndEnter of the failure report
\*   res: "ok", "retry" (pasted, sentinel not seen) or "throw" (temp file not written)
PasteFailure(res) ==
    /\ pc = "paste"
    /\ IF res = "throw"
       THEN /\ pc' = Catch /\ caught' = TRUE /\ UNCHANGED <<deliveries, pasteRes>>
       ELSE /\ pc' = "mark"
            /\ pasteRes' = res
            /\ deliveries' = Tally("failure", state.last_push.sha)
            /\ UNCHANGED caught
    /\ UNCHANGED <<fs, state, postPush, notifiedNoPrForSha, now, tallied, idleVars>>

\* A commit marked only when its paste was seen to arrive.
MarkAfterPaste_OnlyOk(s, res) ==
    IF res = "ok" THEN MarkSeen(s, "failure") ELSE s

\* watch.ts lines 316-317: the commit is marked whatever pasteAndEnter returned
MarkAfterPaste(s, res) == MarkSeen(s, "failure")

\* watch.ts lines 310-318: notify when ok, mark the commit as seen, writeState
MarkFailure(wr) ==
    /\ pc = "mark"
    /\ deliveries' = IF pasteRes = "ok" THEN Tally("posted", state.last_push.sha)
                     ELSE deliveries
    /\ state' = MarkAfterPaste(state, pasteRes)
    /\ pasteRes' = None
    /\ IF wr
       THEN /\ fs' = writeState(fs, state') /\ pc' = "sleep" /\ UNCHANGED caught
       ELSE /\ fs' \in FailedWrites(fs, state') /\ pc' = Catch /\ caught' = TRUE
    /\ UNCHANGED <<postPush, notifiedNoPrForSha, now, tallied, idleVars>>

\* watch.ts lines 324-328: notifyAll("CI passed ...")
NotifySuccess ==
    /\ pc = "notify_success"
    /\ deliveries' = Tally("success", state.last_push.sha)
    /\ pc' = "mark_success"
    /\ UNCHANGED <<fs, state, postPush, notifiedNoPrForSha, pasteRes, now,
                   tallied, caught, idleVars>>

\* watch.ts lines 329-331: mark the commit as seen, writeState
MarkSuccess(wr) ==
    /\ pc = "mark_success"
    /\ state' = MarkSeen(state, "success")
    /\ IF wr
       THEN /\ fs' = writeState(fs, state') /\ pc' = "sleep" /\ UNCHANGED caught
       ELSE /\ fs' \in FailedWrites(fs, state') /\ pc' = Catch /\ caught' = TRUE
    /\ UNCHANGED <<postPush, notifiedNoPrForSha, pasteRes, now, tallied, deliveries,
                   idleVars>>

\* watch.ts lines 45-46: the two base intervals of the configuration
pollFast == "pollSecPostPush"
pollIdle == "pollSecIdle"

\* watch.ts line 338
baseSec(pp) == IF pp THEN pollFast ELSE pollIdle

\* watch.ts lines 337-342: the cadence sleep, then postPush is cleared once the
\* CI of the pushed commit has been seen
Sleep ==
    /\ pc = "sleep"
    /\ now' = IF now < MaxNow THEN now + 1 ELSE now
    /\ postPush' = IF state.last_ci_seen_for_sha = state.last_push.sha
                   THEN FALSE ELSE postPush
    /\ pc' = "top"
    /\ caught' = FALSE
    /\ UNCHANGED <<fs, state, notifiedNoPrForSha, pasteRes, tallied, deliveries,
                   idleVars>>

\* watch.ts lines 343-346: the handler's sleep(2000), then the next iteration
Backoff ==
    /\ pc = "backoff"
    /\ pc' = "top"
    /\ UNCHANGED <<fs, state, postPush, notifiedNoPrForSha, pasteRes, now,
                   tallied, deliveries, caught, idleVars>>

\* The process is killed at any point and watch() is started again
\* (watch.ts lines 67, 75-79: the state is read back, the locals start afresh).
Restart ==
    /\ pc' = "top"
    /\ state' = readState(fs)
    /\ postPush' = FALSE
    /\ notifiedNoPrForSha' = None
    /\ pasteRes' = None
    /\ caught' = FALSE
    /\ lastSig' = None /\ idleStart' = NoStart /\ lastNotifiedDormant' = FALSE
    /\ UNCHANGED <<fs, now, tallied, deliveries, idleSec>>

----------------------------------------------------------------------------
(* Claims about the watch loop *)

\* C1: the CI failure report for a pushed commit is pasted at most once per
\* commit, whatever the polls, pushes and CI outcomes: not again after a paste
\* result of 'retry', after an iteration that ended in the exception handler,
\* after the remote head moved to another commit and back, or after a restart
\* that reloads the persisted state.
C1_FailureReportAtMostOnce == tallied = "failure" => deliveries <= 1

\* C6: while the pull request is dirty or behind, the rebase report is pasted at
\* most once per head commit: again only after a different head commit has been
\* detected.
C6_RebaseReportOncePerHead == tallied = "rebase" => deliveries <= 1

\* C7: the poll loop never ends by itself: an exception raised anywhere in an
\* iteration lands in the loop's handler, the handler's backoff sleep is followed
\* by a further iteration, and no step leaves the loop.
LoopPositions ==
    {"top", "rebase", "gather", "paste", "mark", "notify_success", "mark_success",
     "sleep", "backoff"}

C7_LoopNeverEnds ==
    [][ /\ pc' \in LoopPositions
        /\ (caught' /\ ~caught) => pc' = "backoff"
        /\ pc = "backoff" => pc' = "top" ]_vars

\* An iteration threw, the handler slept, and the iteration after it has come to
\* its cadence sleep.
C7_Witness == caught /\ pc = "sleep"

\* C8: when CI of the last pushed commit settles to success, the success
\* notification is sent exactly once for that commit: later iterations with the
\* same commit send no further one.
C8_SuccessNotifiedOnce == tallied = "success" => deliveries <= 1

\* C22: a poll that sees a remote head other than last_push.sha (the only step
\* of the loop's body that changes last_push) sets last_push to that commit and
\* the current time, writes the state to disk, sets postPush and clears the
\* per-commit notice flag, which the same poll may then set for the new commit;
\* a poll that sees the same head, a detached branch or no remote head leaves
\* last_push and the state file as they were.
C22_PushDetected ==
    [][(pc = "top" /\ pc' # "top") =>
          IF state'.last_push # state.last_push
          THEN /\ state'.last_push.pushed_at = now
               /\ readState(fs') = state'
               /\ postPush'
               /\ notifiedNoPrForSha' \in {None, state'.last_push.sha}
          ELSE fs' = fs]_vars

\* C23: rebase reports, CI failure reports and CI success notifications are
\* issued only while postPush is set: a watcher that has detected no push since
\* it started, also one that loaded a persisted last_push, pastes no report and
\* sends no CI notification.
C23_ReportsOnlyInPostPush ==
    [][(\/ pc = "rebase" /\ pc' = "sleep"
        \/ pc = "paste" /\ pc' = "mark"
        \/ pc = "notify_success" /\ pc' = "mark_success") => postPush]_vars

\* C24: each cadence sleep takes pollSecPostPush as its base interval when
\* postPush is set and pollSecIdle when it is not, and a cadence sleep that
\* follows the failure report of the current commit leaves postPush set: the
\* loop stays at the fast cadence until CI success is reported.
C24_FastCadenceUntilSuccess ==
    [][(pc = "sleep" /\ pc' = "top" /\ slept' # None) =>
          /\ slept' = (IF postPush THEN pollFast ELSE pollIdle)
          /\ (/\ postPush
              /\ state.last_ci_conclusion = "failure"
              /\ state.last_push.sha # None
              /\ state.last_ci_seen_for_sha = state.last_push.sha) => postPush']_vars

\* C25: at every sleep point of the loop (the cadence sleep and the sleep of the
\* exception handler) the state file holds the in-memory state, also in
\* executions where a writeState call failed.
C25_PersistedEqualsMemory ==
    pc \in {"sleep", "backoff"} => readState(fs) = state

\* C26: with the branch head, its open and mergeable pull request and the
\* completed CI runs staying as they are, every call answering and every
\* iteration taken in turn, a watcher that is in the fast-poll mode eventually
\* leaves it, whatever the conclusions of the runs are.
C26_LeavesPostPush == (postPush /\ world.ms = "clean") ~> ~postPush

\* C27: in every state the watcher reaches from a repository without a state
\* file, in memory and on disk, last_ci_seen_for_sha and last_ci_conclusion are
\* both absent or both present, the conclusion is 'failure' or 'success', and a
\* delivery of that kind (the failure report, the success notification) has
\* been issued for the commit last_ci_seen_for_sha names.
C27_SeenMeansReported ==
    \A s \in {state, readState(fs)} :
        /\ (s.last_ci_seen_for_sha = None) <=> (s.last_ci_conclusion = None)
        /\ s.last_ci_seen_for_sha # None =>
              /\ s.last_ci_conclusion \in {"failure", "success"}
              /\ (s.last_ci_seen_for_sha = Watched /\ tallied = s.last_ci_conclusion)
                    => deliveries >= 1

C27_Witness ==
    /\ state.last_push.sha = Watched /\ state.last_ci_seen_for_sha = Watched
    /\ state.last_ci_conclusion = "failure" /\ readState(fs) = state
    /\ tallied = "failure" /\ deliveries = 1 /\ pc = "sleep"

\* C29: the dormant notice is sent only by a poll before which no push was
\* detected or recorded, which finds the pane signature it found the poll
\* before, unchanged for at least idleSec, and with no notice sent yet in that
\* unchanged stretch; a poll that finds another signature starts the idle timer
\* again and re-arms the notice.
C29_DormantOncePerStretch ==
    /\ [](tallied = "dormant" => deliveries <= 1)
    /\ [][(tallied = "dormant" /\ pc = "top" /\ pc' # "top") =>
              /\ deliveries' > deliveries =>
                    /\ ~pushSeen
                    /\ stretch'.sig = stretch.sig
                    /\ now - stretch.since >= idleSec
                    /\ deliveries = 0
              /\ stretch'.sig # stretch.sig =>
                    /\ idleStart' = StartedAt(now)
                    /\ ~lastNotifiedDormant'
                    /\ deliveries' = 0]_vars

\* a notice was sent, the pane changed, and a second notice was sent after the
\* pane had stayed unchanged again
C29_Witness ==
    /\ tallied = "dormant" /\ deliveries = 1 /\ lastNotifiedDormant
    /\ stretch.sig = "sig2" /\ stretch.since > 0 /\ idleSec = 0 /\ ~pushSeen

\* C30: a paste result of 'retry' changes nothing but the notification: the
\* step after the paste marks the commit as seen with conclusion 'failure'
\* whether the result was ok or retry, it sends the 'Posted' notification
\* exactly when the result was ok, and the report is gathered and pasted only
\* for a commit that is not marked as seen.
C30_RetryNeverResends ==
    /\ [](pc \in {"gather", "paste", "mark"} => NotSeen(state))
    /\ [][(pc = "mark" /\ pc' \in {"sleep", Catch}) =>
              /\ state'.last_ci_seen_for_sha = state.last_push.sha
              /\ state'.last_ci_conclusion = "failure"
              /\ ~NotSeen(state')
              /\ deliveries' >= deliveries
              /\ (tallied = "posted" /\ state.last_push.sha = Watched /\ deliveries < 2)
                    => (deliveries' = deliveries + 1 <=> pasteRes = "ok")]_vars

\* the commit was marked and written after a paste that returned retry
C30_Witness ==
    /\ tallied = "posted" /\ deliveries = 0
    /\ state.last_push.sha = Watched /\ state.last_ci_seen_for_sha = Watched
    /\ state.last_ci_conclusion = "failure" /\ readState(fs) = state /\ pc = "top"

----------------------------------------------------------------------------
(* Log text and its curation (report.ts)                                   *)
(*                                                                         *)
(* A line is a sequence of segments [k, n]: n characters of kind k.        *)
(*   "ERROR", "FAILED", "XFAIL", "SKIPPED": that upper-case word           *)
(*   "hdr": the text of SHORT_SUMMARY_HEADER                               *)
(*   "sp":  spaces or tabs                                                 *)
(*   "w":   other word characters (letters, digits, a piece of a word)     *)
(*   "p":   other characters (punctuation, a piece of the header)          *)
(* A text is a sequence of blocks [ln, n]: n consecutive copies of the     *)
(* line ln; the lines of a text are joined by "\n". The empty string is    *)
(* the text of one empty line.                                             *)

MAX_LINE_CHARS == 600
MAX_JOB_EXCERPT_CHARS == 12000
TRIM_SKIPPED_THRESHOLD == 15000

\* the lengths of "ERROR", "FAILED", "XFAIL", "SKIPPED", SHORT_SUMMARY_HEADER
TokenLen == [ERROR |-> 5, FAILED |-> 6, XFAIL |-> 5, SKIPPED |-> 7, hdr |-> 80]

Seg(k, n) == [k |-> k, n |-> n]
Tok(k) == Seg(k, TokenLen[k])
Block(l, n) == [ln |-> l, n |-> n]

\* the kinds made of word characters (\w of the regular expressions)
WordKinds == {"w", "ERROR", "FAILED", "XFAIL", "SKIPPED"}

\* what is left of a segment of kind k when a slice cuts through it
CutKind(k) == IF k \in {"sp", "w", "p"} THEN k ELSE IF k = "hdr" THEN "p" ELSE "w"

RECURSIVE Reverse(_)
Reverse(q) == IF q = <<>> THEN <<>> ELSE Reverse(Tail(q)) \o <<Head(q)>>

\* s.length of a line
RECURSIVE LineLen(_)
LineLen(l) == IF l = <<>> THEN 0 ELSE Head(l).n + LineLen(Tail(l))

\* s.slice(0, k) of a line
RECURSIVE TakeLine(_, _)
TakeLine(l, k) ==
    IF l = <<>> \/ k <= 0 THEN <<>>
    ELSE IF Head(l).n <= k THEN <<Head(l)>> \o TakeLine(Tail(l), k - Head(l).n)
    ELSE <<Seg(CutKind(Head(l).k), k)>>

\* the number of lines of a text
RECURSIVE NumLines(_)
NumLines(t) == IF t = <<>> THEN 0 ELSE Head(t).n + NumLines(Tail(t))

\* s.length of a text: every line and the "\n" between two lines
RECURSIVE SpanLen(_)
SpanLen(t) ==
    IF t = <<>> THEN 0 ELSE Head(t).n * (LineLen(Head(t).ln) + 1) + SpanLen(Tail(t))

TextLen(t) == SpanLen(t) - 1

EmptyText == <<Block(<<>>, 1)>>

\* lines.join("\n")
Join(lines) == IF lines = <<>> THEN EmptyText ELSE lines

MapLines(t, F(_)) == [i \in 1..Len(t) |-> Block(F(t[i].ln), t[i].n)]
FilterLines(t, P(_)) == SelectSeq(t, LAMBDA b : P(b.ln))
CountLines(t, P(_)) == NumLines(FilterLines(t, P))

ReverseText(t) == Reverse([i \in 1..Len(t) |-> Block(Reverse(t[i].ln), t[i].n)])

\* s.slice(0, k) of a text, split into its lines again
RECURSIVE TakeText(_, _)
TakeText(t, k) ==
    IF t = <<>> THEN <<>>
    ELSE LET b == Head(t)
             u == LineLen(b.ln) + 1
             span == b.n * u
         IN IF Tail(t) = <<>> /\ k >= span - 1 THEN <<b>>
            ELSE IF k >= span THEN <<b>> \o TakeText(Tail(t), k - span)
            ELSE (IF k \div u > 0 THEN <<Block(b.ln, k \div u)>> ELSE <<>>)
                    \o <<Block(TakeLine(b.ln, k % u), 1)>>

\* s.slice(-k) of a text, split into its lines again
TakeLastText(t, k) == ReverseText(TakeText(ReverseText(t), k))

\* report.ts lines 17-19: /(^|[ \t])TOKEN([ \t]|$)/
MatchToken(l, tok) ==
    \E i \in 1..Len(l) :
        /\ l[i].k = tok
        /\ (i = 1 \/ l[i - 1].k = "sp")
        /\ (i = Len(l) \/ l[i + 1].k = "sp")

RE_ERROR(l) == MatchToken(l, "ERROR")
RE_FAILED(l) == MatchToken(l, "FAILED")
RE_XFAIL(l) == MatchToken(l, "XFAIL")

\* report.ts line 21: /\bSKIPPED\b/
RE_SKIPPED(l) ==
    \E i \in 1..Len(l) :
        /\ l[i].k = "SKIPPED"
        /\ (i = 1 \/ l[i - 1].k \notin WordKinds)
        /\ (i = Len(l) \/ l[i + 1].k \notin WordKinds)

NotSkipped(l) == ~RE_SKIPPED(l)

\* " … [trimmed]"
TrimmedSuffix ==
    <<Seg("sp", 1), Seg("p", 1), Seg("sp", 1), Seg("p", 1), Seg("w", 7), Seg("p", 1)>>

\* report.ts lines 25-29
truncateLine(s) ==
    IF LineLen(s) <= MAX_LINE_CHARS THEN s
    ELSE TakeLine(s, MAX_LINE_CHARS) \o TrimmedSuffix

\* the number of decimal digits of n, as the template literal prints it
RECURSIVE Digits(_)
Digits(n) == IF n < 10 THEN 1 ELSE 1 + Digits(n \div 10)

\* "… [truncated N chars] …"
Marker(n) ==
    <<Seg("p", 1), Seg("sp", 1), Seg("p", 1), Seg("w", 9), Seg("sp", 1),
      Seg("w", Digits(n)), Seg("sp", 1), Seg("w", 5), Seg("p", 1), Seg("sp", 1),
      Seg("p", 1)>>

\* report.ts lines 31-37
truncateMiddle(s, max) ==
    IF TextLen(s) <= max THEN s
    ELSE LET h == (max - 32) \div 2
             half == IF h > 1 THEN h ELSE 1
         IN TakeText(s, half) \o <<Block(Marker(TextLen(s) - max), 1)>>
               \o TakeLastText(s, half)

\* report.ts lines 49-51
isInterestingLine(l) == RE_ERROR(l) \/ RE_FAILED(l) \/ RE_XFAIL(l)

HasHeader(l) == \E i \in 1..Len(l) : l[i].k = "hdr"

\* report.ts lines 53-59 and 82: the lines after the line on which the header
\* first occurs (<<>> with found FALSE when text.indexOf finds none)
extractShortSummaryBlock(text) ==
    IF \A i \in 1..Len(text) : ~HasHeader(text[i].ln)
    THEN [found |-> FALSE, lines |-> <<>>]
    ELSE LET idx == CHOOSE i \in 1..Len(text) :
                        /\ HasHeader(text[i].ln)
                        /\ \A j \in 1..(i - 1) : ~HasHeader(text[j].ln)
         IN [found |-> TRUE,
             lines |-> (IF text[idx].n > 1
                        THEN <<Block(text[idx].ln, text[idx].n - 1)>> ELSE <<>>)
                          \o SubSeq(text, idx + 1, Len(text))]

\* report.ts lines 69-90: the kept lines with the summary block, joined
joinedExcerpt(rawText) ==
    LET kept1 == MapLines(FilterLines(rawText, isInterestingLine), truncateLine)
        summary == extractShortSummaryBlock(rawText)
    IN Join(IF summary.found
            THEN kept1 \o <<Block(<<>>, 1), Block(<<Tok("hdr")>>, 1)>>
                       \o MapLines(summary.lines, truncateLine)
            ELSE kept1)

\* the SKIPPED lines dropped whatever the length of the excerpt
withoutSkipped_Always(joined) ==
    LET noSkipped == Join(FilterLines(joined, NotSkipped))
    IN IF TextLen(noSkipped) > 0 THEN noSkipped ELSE joined

\* report.ts lines 91-98: the excerpt handed to truncateMiddle
withoutSkipped(joined) ==
    LET noSkipped == Join(FilterLines(joined, NotSkipped))
    IN IF TextLen(joined) > TRIM_SKIPPED_THRESHOLD /\ TextLen(noSkipped) > 0
       THEN noSkipped ELSE joined

\* report.ts lines 61-113
curateJobExcerpt(rawText) ==
    LET kept1 == MapLines(FilterLines(rawText, isInterestingLine), truncateLine)
        err == CountLines(kept1, RE_ERROR)
        fail == CountLines(kept1, RE_FAILED)
        xfail == CountLines(kept1, RE_XFAIL)
        excerpt == truncateMiddle(withoutSkipped(joinedExcerpt(rawText)),
                                  MAX_JOB_EXCERPT_CHARS)
    IN [excerpt |-> excerpt,
        counts |-> [error |-> err, failed |-> fail, xfail |-> xfail,
                    lines |-> IF TextLen(excerpt) > 0 THEN NumLines(excerpt) ELSE 0,
                    chars |-> TextLen(excerpt)]]

ZeroCounts == [error |-> 0, failed |-> 0, xfail |-> 0, lines |-> 0, chars |-> 0]

\* The raw logs curated here: up to MaxBlocks blocks of sample lines
MaxBlocks == 2
ManyLines == 30
HugeLines == 170000

SampleLines ==
    { <<Tok("ERROR"), Seg("sp", 1), Seg("w", 594)>>,
      <<Tok("FAILED"), Seg("sp", 1), Seg("w", 3)>>,
      <<Seg("w", 3), Seg("sp", 1), Tok("XFAIL")>>,
      <<Seg("w", 1), Tok("ERROR")>>,
      <<Seg("w", 600), Seg("sp", 1), Tok("ERROR")>>,
      <<Tok("SKIPPED"), Seg("sp", 1), Seg("w", 22)>>,
      <<Tok("FAILED"), Seg("sp", 1), Tok("SKIPPED")>>,
      <<Tok("hdr")>>,
      <<Seg("w", 10)>>,
      <<>>,
      \* "ERRORED: something" and "got ERROR here"
      <<Tok("ERROR"), Seg("w", 2), Seg("p", 1), Seg("sp", 1), Seg("w", 9)>>,
      <<Seg("w", 3), Seg("sp", 1), Tok("ERROR"), Seg("sp", 1), Seg("w", 4)>>,
      \* "FAILED ... ERRORED" with the word ERRORED across character 600
      <<Tok("FAILED"), Seg("sp", 1), Seg("w", 587), Seg("sp", 1), Tok("ERROR"),
        Seg("w", 2)>> }

SampleBlocks == {Block(l, n) : l \in SampleLines, n \in {1, ManyLines, HugeLines}}

\* A pytest log: 3 ERROR lines, 1 FAILED line, 500 SKIPPED lines of 30
\* characters and the short test summary, its header followed by k other lines;
\* the SKIPPED lines before the summary or at its end
ScenarioLogs ==
    LET errors == Block(<<Tok("ERROR"), Seg("sp", 1), Seg("w", 3)>>, 3)
        failed == Block(<<Tok("FAILED"), Seg("sp", 1), Seg("w", 3)>>, 1)
        skipped == Block(<<Tok("SKIPPED"), Seg("sp", 1), Seg("w", 22)>>, 500)
        header == Block(<<Tok("hdr")>>, 1)
        others(k) == Block(<<Seg("w", 10)>>, k)
    IN { <<errors, failed, skipped, header, others(k)>> : k \in 1..2 }
         \cup { <<errors, failed, header, others(k), skipped>> : k \in 1..2 }

RawLogs == UNION {[1..k -> SampleBlocks] : k \in 1..MaxBlocks} \cup ScenarioLogs

NoExtract == [excerpt |-> EmptyText, counts |-> ZeroCounts]

InitCurate ==
    /\ cpc = "input"
    /\ raw \in RawLogs
    /\ curated = NoExtract

\* one call of curateJobExcerpt
Curate ==
    /\ cpc = "input"
    /\ curated' = curateJobExcerpt(raw)
    /\ cpc' = "done"
    /\ UNCHANGED raw

----------------------------------------------------------------------------
(* Claims about the curation *)

\* C4: for every raw log the returned excerpt is at most 12000 characters long
\* after middle truncation: head, tail and the 'truncated N chars' marker line
\* together, for every number of decimal digits of N.
C4_ExcerptAtMost12000 ==
    cpc = "done" => TextLen(curated.excerpt) <= MAX_JOB_EXCERPT_CHARS

\* C10: the returned counts describe the returned excerpt: error, failed and
\* xfail are the numbers of its lines that match ERROR, FAILED and XFAIL, lines
\* and chars its line and character counts.
C10_CountsDescribeExcerpt ==
    cpc = "done" =>
        /\ curated.counts.error = CountLines(curated.excerpt, RE_ERROR)
        /\ curated.counts.failed = CountLines(curated.excerpt, RE_FAILED)
        /\ curated.counts.xfail = CountLines(curated.excerpt, RE_XFAIL)
        /\ curated.counts.lines =
              (IF TextLen(curated.excerpt) > 0 THEN NumLines(curated.excerpt) ELSE 0)
        /\ curated.counts.chars = TextLen(curated.excerpt)

\* C11: a log line is retained and counted as an ERROR (FAILED, XFAIL) line
\* exactly when it holds that token with white space or a line edge on both
\* sides. On a log of single lines without a summary block: each count is the
\* number of raw lines holding the delimited token, and the retained lines are
\* the raw lines holding one of the three.
C11_DelimitedTokenLines ==
    (/\ cpc = "done"
     /\ \A i \in 1..Len(raw) : raw[i].n = 1 /\ ~HasHeader(raw[i].ln)) =>
        /\ curated.counts.error = CountLines(raw, RE_ERROR)
        /\ curated.counts.failed = CountLines(raw, RE_FAILED)
        /\ curated.counts.xfail = CountLines(raw, RE_XFAIL)
        /\ curated.counts.lines = CountLines(raw, isInterestingLine)

\* C12: for a raw log of 3 ERROR lines, 1 FAILED line, a short test summary
\* block of 2 lines and 500 SKIPPED lines (more than 15000 characters), the
\* excerpt holds no SKIPPED line and the counts are error = 3, failed = 1,
\* xfail = 0, lines = 6.
C12_SkippedScenario ==
    (cpc = "done" /\ raw \in ScenarioLogs) =>
        /\ CountLines(curated.excerpt, RE_SKIPPED) = 0
        /\ curated.counts.error = 3
        /\ curated.counts.failed = 1
        /\ curated.counts.xfail = 0
        /\ curated.counts.lines = 6

\* the lines of a text that hold no SKIPPED word, in their order
OtherLines(t) == SelectSeq(t, LAMBDA b : ~RE_SKIPPED(b.ln))

\* e is the excerpt j after the SKIPPED step: j itself when j is at most 15000
\* characters long or when dropping would leave nothing; else the lines of j
\* without a SKIPPED word, each of them and in their order
SkippedStep(j, e) ==
    /\ TextLen(j) <= TRIM_SKIPPED_THRESHOLD => e = j
    /\ (TextLen(j) > TRIM_SKIPPED_THRESHOLD /\ TextLen(Join(OtherLines(j))) = 0) => e = j
    /\ (TextLen(j) > TRIM_SKIPPED_THRESHOLD /\ TextLen(Join(OtherLines(j))) > 0) =>
          /\ e = OtherLines(j)
          /\ CountLines(e, RE_SKIPPED) = 0

\* C37: SKIPPED lines are dropped only from an excerpt of more than 15000
\* characters; the drop comes before the middle truncation and is discarded
\* when it would leave nothing; an excerpt it was applied to holds, before the
\* middle truncation, no SKIPPED line and every other line in order.
C37_SkippedDrop ==
    cpc = "done" =>
        \E e \in {withoutSkipped(joinedExcerpt(raw))} :
            /\ SkippedStep(joinedExcerpt(raw), e)
            /\ curated.excerpt = truncateMiddle(e, MAX_JOB_EXCERPT_CHARS)

\* a large excerpt that lost its SKIPPED lines, kept others and was truncated
C37_Witness ==
    /\ cpc = "done"
    /\ TextLen(joinedExcerpt(raw)) > TRIM_SKIPPED_THRESHOLD
    /\ CountLines(joinedExcerpt(raw), RE_SKIPPED) > 0
    /\ withoutSkipped(joinedExcerpt(raw)) = OtherLines(joinedExcerpt(raw))
    /\ TextLen(withoutSkipped(joinedExcerpt(raw))) > MAX_JOB_EXCERPT_CHARS
    /\ curated.excerpt # withoutSkipped(joinedExcerpt(raw))

\* a large excerpt of SKIPPED lines only, returned with them
C37_WitnessDiscarded ==
    /\ cpc = "done"
    /\ TextLen(joinedExcerpt(raw)) > TRIM_SKIPPED_THRESHOLD
    /\ OtherLines(joinedExcerpt(raw)) = <<>>
    /\ CountLines(curated.excerpt, RE_SKIPPED) > 0

----------------------------------------------------------------------------
(* The one-shot CI gather (gather-ci.ts runGatherCi, lines 41-259) *)

MaxRuns == 2

\* RunBrief as listWorkflowRunsSince returns it (github.ts lines 457-465): a
\* conclusion is set only on a completed run; the ids are those of the list
RunKinds ==
    { [status |-> "completed", conclusion |-> "failure"],
      [status |-> "completed", conclusion |-> "success"],
      [status |-> "in_progress", conclusion |-> None],
      [status |-> "queued", conclusion |-> None] }

RunBrief(i, k) == [id |-> i, status |-> k.status, conclusion |-> k.conclusion]

RunsSince ==
    UNION { { [i \in 1..n |-> RunBrief(i, ks[i])] : ks \in [1..n -> RunKinds] }
            : n \in 0..MaxRuns }

\* the jobs listJobsForRun returns for a run (github.ts lines 326-332): a
\* conclusion is set only on a completed job; the ids are those of the list
Job(i, k) == [id |-> i, status |-> k.status, conclusion |-> k.conclusion]

JobLists ==
    { [i \in 1..Len(ks) |-> Job(i, ks[i])] : ks \in
        LET failed == [status |-> "completed", conclusion |-> "failure"]
            passed == [status |-> "completed", conclusion |-> "success"]
            running == [status |-> "in_progress", conclusion |-> None]
        IN { <<>>, <<failed>>, <<passed>>, <<running>>, <<failed, running>>,
             <<passed, failed>>, <<failed, failed>>, <<passed, running>> } }

\* "(unable to fetch logs for this job; open in browser)"
UnableToFetch ==
    <<Block(<<Seg("p", 1), Seg("w", 6), Seg("sp", 1), Seg("w", 2), Seg("sp", 1),
              Seg("w", 5), Seg("sp", 1), Seg("w", 4), Seg("sp", 1), Seg("w", 3),
              Seg("sp", 1), Seg("w", 4), Seg("sp", 1), Seg("w", 3), Seg("p", 1),
              Seg("sp", 1), Seg("w", 4), Seg("sp", 1), Seg("w", 2), Seg("sp", 1),
              Seg("w", 7), Seg("p", 1)>>, 1)>>

\* the log of a failing job: one FAILED line and one line of output
SampleLog ==
    <<Block(<<Tok("FAILED"), Seg("sp", 1), Seg("w", 3)>>, 1), Block(<<Seg("w", 10)>>, 1)>>

\* what gh.fetchJobLog does for one job: the log, or a throw
FetchOutcomes == {[ok |-> TRUE, text |-> SampleLog], [ok |-> FALSE, text |-> EmptyText]}

\* gather-ci.ts line 73
inProgress(runs) == SelectSeq(runs, LAMBDA r : r.status # "completed")

\* gather-ci.ts lines 74-78
completedFailing(runs) ==
    SelectSeq(runs, LAMBDA r : /\ r.status = "completed"
                               /\ r.conclusion # None
                               /\ r.conclusion \in FailureLike)

\* A gate that is never shut lets a pending, unforced gather through.
PendingGate_Never(runs, force) == FALSE

\* gather-ci.ts line 79: if (inProgress.length && !args.force)
PendingGate(runs, force) == Len(inProgress(runs)) > 0 /\ ~force

\* gather-ci.ts lines 100-116
failingJobs(run, jobs) ==
    SelectSeq(jobs, LAMBDA j :
        \/ (j.conclusion # None /\ j.conclusion \in FailureLike)
        \/ /\ run.status # "completed"
           /\ j.status = "completed"
           /\ j.conclusion # None
           /\ j.conclusion \in FailureLike)

RECURSIVE SumCounts(_)
SumCounts(jobExtracts) ==
    IF jobExtracts = <<>> THEN ZeroCounts
    ELSE LET c == Head(jobExtracts).counts
             s == SumCounts(Tail(jobExtracts))
         IN [error |-> c.error + s.error, failed |-> c.failed + s.failed,
             xfail |-> c.xfail + s.xfail, lines |-> c.lines + s.lines,
             chars |-> c.chars + s.chars]

\* report.ts lines 115-147; jobLogs maps the place of a job in jobs to its log
toRunExtract(run, jobs, jobLogs) ==
    LET jobExtracts == [i \in 1..Len(jobs) |->
                          LET c == curateJobExcerpt(jobLogs[i])
                          IN [job |-> jobs[i], excerpt |-> c.excerpt, counts |-> c.counts]]
    IN [run |-> run, jobs |-> jobExtracts, totalCounts |-> SumCounts(jobExtracts)]

\* A gather that leaves out a pending run none of whose jobs has failed.
Placeholder_Omitted(run, force) == <<>>

\* gather-ci.ts lines 118-127: the extract of a pending run without a failing
\* job (<<>> stands for the null that the caller leaves out)
Placeholder(run, force) ==
    IF force THEN <<[run |-> run, jobs |-> <<>>, totalCounts |-> ZeroCounts]>> ELSE <<>>

\* gather-ci.ts lines 95-142 after listJobsForRun has answered; logs[i] is
\* what fetchJobLog does for the i-th listed job
fetchRunExtract(run, jobs, logs, force) ==
    LET idx == SelectSeq([i \in 1..Len(jobs) |-> i], LAMBDA i :
                   Len(failingJobs(run, <<jobs[i]>>)) > 0)
        failing == [k \in 1..Len(idx) |-> jobs[idx[k]]]
        jobLogs == [k \in 1..Len(idx) |->
                       IF logs[idx[k]].ok THEN logs[idx[k]].text ELSE UnableToFetch]
    IN IF failing = <<>> /\ run.status # "completed"
       THEN Placeholder(run, force)
       ELSE <<toRunExtract(run, failing, jobLogs)>>

\* gather-ci.ts lines 130-140: the jobs of the run whose log fetch threw
threwFor(run, jobs, logs) ==
    { <<run.id, jobs[i].id>> : i \in { j \in 1..Len(jobs) :
          Len(failingJobs(run, <<jobs[j]>>)) > 0 /\ ~logs[j].ok } }

NoArgs == [force |-> FALSE, skipClaude |-> FALSE]
\* threw: the <<run id, job id>> whose fetchJobLog call threw
NoCalls == [jobLists |-> 0, jobLogs |-> 0, summaries |-> 0, threw |-> {}]
NoReport == [written |-> FALSE, runExtracts |-> <<>>, summary |-> FALSE]
NoJobsListed == [i \in 1..MaxRuns |-> <<>>]

InitGather ==
    /\ gpc = "start"
    /\ args \in [force : BOOLEAN, skipClaude : BOOLEAN]
    /\ runsSince \in RunsSince
    /\ queue = <<>>
    /\ listed = NoJobsListed
    /\ runExtracts = <<>>
    /\ calls = NoCalls
    /\ report = NoReport
    /\ stdout = FALSE
    /\ exitCode = 0

\* gather-ci.ts lines 66-107 and 144-159: the runs are in hand; the gate, then
\* the runs whose extracts will be fetched
GatherGate ==
    /\ gpc = "start"
    /\ IF PendingGate(runsSince, args.force)
       THEN /\ exitCode' = 2
            /\ gpc' = "done"
            /\ UNCHANGED queue
       ELSE /\ queue' = completedFailing(runsSince)
                          \o (IF args.force THEN inProgress(runsSince) ELSE <<>>)
            /\ gpc' = "extract"
            /\ UNCHANGED exitCode
    /\ UNCHANGED <<args, runsSince, listed, runExtracts, calls, report, stdout>>

\* gather-ci.ts lines 144-159, one turn of either loop: fetchRunExtract(r)
\*   ok: did listJobsForRun answer (it throws through runGatherCi otherwise)
FetchRunExtract(jobs, logs, ok) ==
    /\ gpc = "extract"
    /\ queue # <<>>
    /\ LET r == Head(queue)
           n == Len(failingJobs(r, jobs))
       IN IF ~ok
          THEN /\ gpc' = "threw"
               /\ calls' = [calls EXCEPT !.jobLists = @ + 1]
               /\ UNCHANGED <<queue, listed, runExtracts>>
          ELSE /\ calls' = [calls EXCEPT !.jobLists = @ + 1, !.jobLogs = @ + n,
                                         !.threw = @ \cup threwFor(r, jobs, logs)]
               /\ listed' = [listed EXCEPT ![r.id] = jobs]
               /\ runExtracts' = runExtracts \o fetchRunExtract(r, jobs, logs, args.force)
               /\ queue' = Tail(queue)
               /\ UNCHANGED gpc
    /\ UNCHANGED <<args, runsSince, report, stdout, exitCode>>

\* gather-ci.ts lines 161-187: the summarizer is asked unless skipClaude
\*   res: did it return a summary (a throw and an empty answer leave none)
Summarize(res) ==
    /\ gpc = "extract"
    /\ queue = <<>>
    /\ IF args.skipClaude
       THEN /\ res = FALSE
            /\ UNCHANGED calls
       ELSE calls' = [calls EXCEPT !.summaries = @ + 1]
    /\ report' = [report EXCEPT !.summary = res]
    /\ gpc' = "write"
    /\ UNCHANGED <<args, runsSince, queue, listed, runExtracts, stdout, exitCode>>

\* gather-ci.ts lines 189-259: the report is built from runExtracts and written,
\* then the console summary
\*   wr: did writeFileAtomic succeed
WriteReport(wr) ==
    /\ gpc = "write"
    /\ IF wr
       THEN /\ report' = [report EXCEPT !.written = TRUE, !.runExtracts = runExtracts]
            /\ stdout' = TRUE
            /\ gpc' = "done"
       ELSE /\ gpc' = "threw"
            /\ UNCHANGED <<report, stdout>>
    /\ UNCHANGED <<args, runsSince, queue, listed, runExtracts, calls, exitCode>>

----------------------------------------------------------------------------
(* Claims about the gather *)

\* C2: when the fetched runs hold a run that is not completed and force is
\* false, runGatherCi ends with exit code 2 and no report output: no job list
\* and no job log is fetched, no summary is asked for, no report file is written.
C2_PendingGate ==
    (gpc # "start" /\ Len(inProgress(runsSince)) > 0 /\ ~args.force) =>
        /\ gpc = "done"
        /\ exitCode = 2
        /\ calls = NoCalls
        /\ report = NoReport
        /\ ~stdout
        /\ runExtracts = <<>>

\* The gate has shut on a window that holds a pending run beside a failed one.
C2_Witness ==
    /\ gpc = "done" /\ exitCode = 2 /\ ~args.force
    /\ Len(inProgress(runsSince)) > 0
    /\ Len(completedFailing(runsSince)) > 0

\* The extracts of run r in a report
ExtractsOf(r) == SelectSeq(report.runExtracts, LAMBDA x : x.run = r)

\* The jobs of run r that have completed and are failure-like, as listed
CompletedFailingJobs(r) ==
    SelectSeq(listed[r.id], LAMBDA j : j.status = "completed" /\ j.conclusion \in FailureLike)

JobExtractsOf(rid, jid) ==
    { jx \in UNION { SeqRange(report.runExtracts[i].jobs) :
                       i \in { k \in 1..Len(report.runExtracts) :
                                  report.runExtracts[k].run.id = rid } } :
        jx.job.id = jid }

\* C20: when fetchJobLog throws for a failing job the batch goes on (the report
\* is written with an extract for every failing job of every run worked on),
\* and the extract of the job whose fetch threw carries the placeholder text.
C20_FetchFailurePlaceholder ==
    report.written =>
        /\ \A rid \in 1..Len(runsSince) :
              \A k \in 1..Len(listed[rid]) :
                 Len(failingJobs(runsSince[rid], <<listed[rid][k]>>)) > 0 =>
                    JobExtractsOf(rid, listed[rid][k].id) # {}
        /\ \A f \in calls.threw :
              /\ JobExtractsOf(f[1], f[2]) # {}
              /\ \A jx \in JobExtractsOf(f[1], f[2]) : jx.excerpt = UnableToFetch

\* C31: once the target is resolved and the runs are in hand, no failure of
\* one upstream call (the job list of a run, the log of a job, the summarizer)
\* ends the gather: the step that meets the failure goes on towards the report.
C31_UpstreamFailureNeverAborts ==
    [][gpc = "extract" => gpc' # "threw"]_vars

----------------------------------------------------------------------------
(* The comment reconciler (comments.ts gatherComments, lines 21-185) *)

MaxFetched == 3
MaxCap == 2

\* logins as GitHub returns them, and String.toLowerCase on them
Users == {"al", "Bo"}
ToLowerCase(s) == IF s = "Bo" THEN "bo" ELSE IF s = "AL" THEN "al" ELSE s

\* createdAt: ISO timestamps, which localeCompare orders as time does
Stamps == {0, 1}

\* What listCommentsRest returns (github.ts lines 493-700), each list in the
\* order of its pages. The ids are those of the place in the list: issue
\* comments 11.., review line comments 1.., reviews 21..
IssueKinds == [created_at : Stamps, user : Users]

\* in_reply_to_id: 0 (null) or the first review line comment; thread_id: 0
\* (null) or the review the comment was submitted with
ReviewCommentKinds ==
    [created_at : Stamps, user : Users, in_reply_to_id : {0, 1}, thread_id : {0, 9}]

ReviewKinds == [created_at : Stamps, user : Users, state : {"APPROVED", "COMMENTED"}]

IssueLists(n) ==
    { [i \in 1..n |-> [id |-> 10 + i, created_at |-> ks[i].created_at, user |-> ks[i].user]]
      : ks \in [1..n -> IssueKinds] }

ReviewCommentLists(n) ==
    { [i \in 1..n |-> [id |-> i, created_at |-> ks[i].created_at, user |-> ks[i].user,
                       path |-> "f", commit_id |-> "k",
                       in_reply_to_id |-> ks[i].in_reply_to_id,
                       thread_id |-> ks[i].thread_id]]
      : ks \in {k \in [1..n -> ReviewCommentKinds] : n > 0 => k[1].in_reply_to_id = 0} }

ReviewLists(n) ==
    { [i \in 1..n |-> [id |-> 20 + i, created_at |-> ks[i].created_at, user |-> ks[i].user,
                       state |-> ks[i].state]]
      : ks \in [1..n -> ReviewKinds] }

Fetches ==
    UNION { [issueComments : IssueLists(a), reviewComments : ReviewCommentLists(b),
             reviews : ReviewLists(c)]
            : <<a, b, c>> \in {t \in (0..MaxFetched) \X (0..MaxFetched) \X (0..MaxFetched) :
                                  t[1] + t[2] + t[3] <= MaxFetched} }

\* GatherCommentsOptions: cap, authors, states (<<>>: the option is not given)
Options ==
    [cap : 0..MaxCap, authors : {<<>>, <<"AL">>}, states : {<<>>, <<"APPROVED">>}]

\* A thread key is a string: String(id), `${path}:${commit}` or `${source}:${id}`.
\* It is kept as the number and the text it is made of.
Key(num, text) == [num |-> num, text |-> text]

\* the key with the in_reply_to_id tried before the thread_id
threadId_ReplyFirst(rc) ==
    IF rc.in_reply_to_id # 0 THEN Key(rc.in_reply_to_id, "")
    ELSE IF rc.thread_id # 0 THEN Key(rc.thread_id, "")
    ELSE Key(0, rc.path \o ":" \o rc.commit_id)

\* comments.ts lines 61-66
threadId(rc) ==
    IF rc.thread_id # 0 THEN Key(rc.thread_id, "")
    ELSE IF rc.in_reply_to_id # 0 THEN Key(rc.in_reply_to_id, "")
    ELSE Key(0, rc.path \o ":" \o rc.commit_id)

\* comments.ts lines 39-47, 77-88, 94-106: the unified CommentItem
Item(c, source, reviewState, parentId) ==
    [id |-> c.id, author |-> c.user, createdAt |-> c.created_at, source |-> source,
     reviewState |-> reviewState, parentId |-> parentId]

\* comments.ts lines 52-89: the Map of threads, in insertion order
RECURSIVE byThread(_, _)
byThread(rcs, acc) ==
    IF rcs = <<>> THEN acc
    ELSE LET rc == Head(rcs)
             k == threadId(rc)
             item == Item(rc, "review_line", None, rc.in_reply_to_id)
         IN IF \E i \in 1..Len(acc) : acc[i].threadId = k
            THEN LET i == CHOOSE i \in 1..Len(acc) : acc[i].threadId = k
                 IN byThread(Tail(rcs), [acc EXCEPT ![i].comments = Append(@, item)])
            ELSE byThread(Tail(rcs), Append(acc, [threadId |-> k, comments |-> <<item>>]))

\* Array.prototype.sort with a comparator on keys: stable
RECURSIVE InsertAfterLE(_, _)
InsertAfterLE(x, s) ==
    IF s = <<>> THEN <<x>>
    ELSE IF Head(s).key <= x.key THEN <<Head(s)>> \o InsertAfterLE(x, Tail(s))
    ELSE <<x>> \o s

RECURSIVE StableSort(_)
StableSort(s) ==
    IF s = <<>> THEN <<>>
    ELSE InsertAfterLE(s[Len(s)], StableSort(SubSeq(s, 1, Len(s) - 1)))

SortComments_Unsorted(cs) == cs

\* comments.ts lines 129-131
SortComments(cs) ==
    LET keyed == [i \in 1..Len(cs) |-> [key |-> cs[i].createdAt, val |-> cs[i]]]
        sorted == StableSort(keyed)
    IN [i \in 1..Len(cs) |-> sorted[i].val]

\* comments.ts lines 154-158
SortThreads(ts) ==
    LET keyed == [i \in 1..Len(ts) |->
                    [key |-> ts[i].comments[Len(ts[i].comments)].createdAt, val |-> ts[i]]]
        sorted == StableSort(keyed)
    IN [i \in 1..Len(ts) |-> sorted[i].val]

\* comments.ts lines 107-123
keepItem(i, o) ==
    /\ o.authors # <<>> =>
          ToLowerCase(i.author) \in {ToLowerCase(o.authors[k]) : k \in 1..Len(o.authors)}
    /\ (o.states # <<>> /\ i.source = "review_summary" /\ i.reviewState # None) =>
          i.reviewState \in {o.states[k] : k \in 1..Len(o.states)}

RECURSIVE TotalComments(_)
TotalComments(ts) ==
    IF ts = <<>> THEN 0 ELSE Len(Head(ts).comments) + TotalComments(Tail(ts))

\* a cap that empties the list as soon as the total is above it
DropOldest_All(ts, cap) == IF TotalComments(ts) > cap THEN <<>> ELSE ts

\* comments.ts lines 167-170: while (total > cap && allThreads.length > 0) shift
RECURSIVE DropOldest(_, _)
DropOldest(ts, cap) ==
    IF TotalComments(ts) > cap /\ Len(ts) > 0 THEN DropOldest(Tail(ts), cap) ELSE ts

\* comments.ts lines 21-185
gatherComments(f, o) ==
    LET lineThreads == byThread(f.reviewComments, <<>>)
        filtered == [i \in 1..Len(lineThreads) |->
                        [lineThreads[i] EXCEPT !.comments =
                            SelectSeq(SortComments(@), LAMBDA c : keepItem(c, o))]]
        threads == SelectSeq(filtered, LAMBDA t : Len(t.comments) > 0)
        items == [i \in 1..Len(f.issueComments) |->
                     Item(f.issueComments[i], "issue", None, 0)]
                   \o [i \in 1..Len(f.reviews) |->
                         Item(f.reviews[i], "review_summary", f.reviews[i].state, 0)]
        keptItems == SelectSeq(items, LAMBDA c : keepItem(c, o))
        singletons == [i \in 1..Len(keptItems) |->
                          [threadId |-> Key(keptItems[i].id, keptItems[i].source),
                           comments |-> <<keptItems[i]>>]]
        allThreads == SortThreads(threads \o singletons)
        capped == IF o.cap > 0 THEN DropOldest(allThreads, o.cap) ELSE allThreads
    IN [totalCount |-> TotalComments(capped), threads |-> capped]

NoFetch == [issueComments |-> <<>>, reviewComments |-> <<>>, reviews |-> <<>>]
NoOptions == [cap |-> 0, authors |-> <<>>, states |-> <<>>]
NoSnapshot == [totalCount |-> 0, threads |-> <<>>]

InitComments ==
    /\ kpc = "input"
    /\ fetched \in Fetches
    /\ opts \in Options
    /\ snapshot = NoSnapshot

\* one call of gatherComments
GatherComments ==
    /\ kpc = "input"
    /\ snapshot' = gatherComments(fetched, opts)
    /\ kpc' = "done"
    /\ UNCHANGED <<fetched, opts>>

----------------------------------------------------------------------------
(* Claims about the comment reconciler *)

\* The ids of the comments collected for the thread with key k, after filtering
CollectedFor(k) ==
    { c.id : c \in { fetched.reviewComments[i] : i \in 1..Len(fetched.reviewComments) } }
       \cap { c.id : c \in { x \in { fetched.reviewComments[i] :
                                        i \in 1..Len(fetched.reviewComments) } :
                                /\ threadId(x) = k
                                /\ keepItem(Item(x, "review_line", None, 0), opts) } }

\* C5: for every cap C, 0 and a C below the size of one thread included, the
\* snapshot has totalCount = the sum of its threads' comment counts, totalCount
\* <= C, and the cap is met by removing whole threads: a thread that remains
\* holds every comment collected for it after filtering.
C5_CommentCap ==
    kpc = "done" =>
        /\ snapshot.totalCount = TotalComments(snapshot.threads)
        /\ snapshot.totalCount <= opts.cap
        /\ \A i \in 1..Len(snapshot.threads) :
              LET t == snapshot.threads[i]
              IN t.threadId.text \notin {"issue", "review_summary"} =>
                    {t.comments[k].id : k \in 1..Len(t.comments)} = CollectedFor(t.threadId)

\* the createdAt of the most recent comment of a thread
LastCreatedAt(t) == t.comments[Len(t.comments)].createdAt

\* C15: in every snapshot the comments of each thread are in ascending
\* createdAt order, backfilled parents included, and the threads are in
\* ascending order of the createdAt of their most recent comment.
C15_ThreadOrdering ==
    kpc = "done" =>
        /\ \A i \in 1..Len(snapshot.threads) :
              \A k \in 1..(Len(snapshot.threads[i].comments) - 1) :
                  snapshot.threads[i].comments[k].createdAt
                      <= snapshot.threads[i].comments[k + 1].createdAt
        /\ \A i \in 1..(Len(snapshot.threads) - 1) :
              LastCreatedAt(snapshot.threads[i]) <= LastCreatedAt(snapshot.threads[i + 1])

\* a reply fetched before its older parent, in a snapshot of two threads
C15_Witness ==
    /\ kpc = "done"
    /\ Len(fetched.reviewComments) = 2
    /\ fetched.reviewComments[1].created_at > fetched.reviewComments[2].created_at
    /\ Len(snapshot.threads) = 2
    /\ \E i \in 1..2 :
          /\ Len(snapshot.threads[i].comments) = 2
          /\ snapshot.threads[i].comments[1].id = 2
          /\ snapshot.threads[i].comments[2].id = 1
    /\ LastCreatedAt(snapshot.threads[1]) < LastCreatedAt(snapshot.threads[2])

\* the threads of the gather before the cap: the same gather with the cap off
Uncapped == gatherComments(fetched, [opts EXCEPT !.cap = 0]).threads

\* how many threads the cap removed
Evicted == Len(Uncapped) - Len(snapshot.threads)

\* kept is what remains of the sorted threads u under the cap: the newest
\* threads in order, every removed one no newer than every kept one, and the
\* newest removed one needed to get within the cap
OldestFirst(u, kept, cap) ==
    LET n == Len(u) - Len(kept)
    IN /\ n >= 0
       /\ kept = SubSeq(u, n + 1, Len(u))
       /\ \A i \in 1..n : \A j \in 1..Len(kept) :
             LastCreatedAt(u[i]) <= LastCreatedAt(kept[j])
       /\ n > 0 => TotalComments(kept) + Len(u[n].comments) > cap
       /\ TotalComments(u) <= cap => n = 0

\* C33: the cap removes threads from the old end of the list and no more than
\* it needs: the threads that remain are the newest ones, in order; the last
\* comment of a removed thread is no newer than the last comment of a thread
\* that remains; and no thread is removed once the total is within the cap.
C33_CapEvictsOldestFirst ==
    (kpc = "done" /\ opts.cap > 0) =>
        LET u == Uncapped IN OldestFirst(u, snapshot.threads, opts.cap)

\* three threads over a cap of two: the oldest is removed, two newer remain
C33_Witness ==
    /\ kpc = "done"
    /\ opts.cap = 2
    /\ Len(Uncapped) = 3
    /\ Evicted = 1
    /\ Len(snapshot.threads) = 2
    /\ LastCreatedAt(Uncapped[1]) < LastCreatedAt(snapshot.threads[2])

\* the fetched review line comment with the id n
FetchedLine(n) ==
    CHOOSE c \in {fetched.reviewComments[i] : i \in 1..Len(fetched.reviewComments)} : c.id = n

\* the sources of the comments of a thread
SourcesOf(t) == {t.comments[k].source : k \in 1..Len(t.comments)}

\* C35: a thread of review line comments is keyed, for each of its comments, by
\* the comment's thread_id when it has one, else by its in_reply_to_id when it
\* has one, else by path:commit; an issue comment or a review summary is a
\* thread of its own keyed source:id; no thread holds comments of two sources.
C35_ThreadKeys ==
    kpc = "done" =>
        \A i \in 1..Len(snapshot.threads) :
            LET t == snapshot.threads[i]
            IN /\ Cardinality(SourcesOf(t)) = 1
               /\ SourcesOf(t) = {"review_line"} =>
                     \A k \in 1..Len(t.comments) :
                         LET c == FetchedLine(t.comments[k].id)
                         IN /\ c.thread_id # 0 => t.threadId = Key(c.thread_id, "")
                            /\ (c.thread_id = 0 /\ c.in_reply_to_id # 0) =>
                                  t.threadId = Key(c.in_reply_to_id, "")
                            /\ (c.thread_id = 0 /\ c.in_reply_to_id = 0) =>
                                  t.threadId = Key(0, c.path \o ":" \o c.commit_id)
               /\ SourcesOf(t) # {"review_line"} =>
                     /\ Len(t.comments) = 1
                     /\ t.threadId = Key(t.comments[1].id, t.comments[1].source)

\* a reply that carries a thread_id is in the thread of that id, beside a
\* thread keyed by path and commit and an issue comment on its own
C35_Witness ==
    /\ kpc = "done"
    /\ Len(snapshot.threads) = 3
    /\ \E i \in 1..3 :
          /\ snapshot.threads[i].threadId = Key(9, "")
          /\ FetchedLine(snapshot.threads[i].comments[1].id).in_reply_to_id = 1
    /\ \E i \in 1..3 : snapshot.threads[i].threadId = Key(0, "f:k")
    /\ \E i \in 1..3 : snapshot.threads[i].threadId = Key(11, "issue")

\* the places <<thread, comment>> of the review line comments of the snapshot
LinePlaces ==
    { pl \in (1..Len(snapshot.threads)) \X (1..MaxFetched + 1) :
        /\ pl[2] <= Len(snapshot.threads[pl[1]].comments)
        /\ snapshot.threads[pl[1]].comments[pl[2]].source = "review_line" }

CommentAt(pl) == snapshot.threads[pl[1]].comments[pl[2]]

\* C36: a review line reply and its parent, when the snapshot holds both, are
\* in the same thread, whatever thread_id each of them carries.
C36_ReplyWithParent ==
    kpc = "done" =>
        \A reply \in LinePlaces : \A parent \in LinePlaces :
            CommentAt(reply).parentId = CommentAt(parent).id => reply[1] = parent[1]

----------------------------------------------------------------------------
(* The state of the report module that curateJobExcerpt can reach          *)
(* (report.ts lines 17-21): the four regular expressions are objects made  *)
(* once, when the module is loaded, and shared by every call.              *)
(* RegExp.prototype.test reads and writes the lastIndex of an expression   *)
(* that carries the g flag, and leaves it alone otherwise.                 *)

RegexNames == {"ERROR", "FAILED", "XFAIL", "SKIPPED"}

\* report.ts lines 17-21: the literals carry no flag
RegexGlobal_Set == TRUE
RegexGlobal == FALSE

NoMatchYet == [r \in RegexNames |-> 0]

\* the character offset at which segment i of a line starts
Offset(l, i) == LineLen(SubSeq(l, 1, i - 1))

\* the matches of an expression on a line: the offsets of the first character
\* matched and of the character after the last. (^|[ \t]) and ([ \t]|$) take
\* one delimiter character each, \b takes none.
Matches(name, l) ==
    IF name = "SKIPPED"
    THEN { [start |-> Offset(l, i), end |-> Offset(l, i) + l[i].n] :
             i \in { i \in 1..Len(l) :
                       /\ l[i].k = name
                       /\ (i = 1 \/ l[i - 1].k \notin WordKinds)
                       /\ (i = Len(l) \/ l[i + 1].k \notin WordKinds) } }
    ELSE { [start |-> Offset(l, i) - (IF i = 1 THEN 0 ELSE 1),
            end |-> Offset(l, i) + l[i].n + (IF i = Len(l) THEN 0 ELSE 1)] :
             i \in { i \in 1..Len(l) :
                       /\ l[i].k = name
                       /\ (i = 1 \/ l[i - 1].k = "sp")
                       /\ (i = Len(l) \/ l[i + 1].k = "sp") } }

\* RegExp.prototype.test(l) on the expression name, li the lastIndex values
test(name, l, li) ==
    IF ~RegexGlobal THEN [ok |-> Matches(name, l) # {}, li |-> li]
    ELSE LET from == {m \in Matches(name, l) : m.start >= li[name]}
         IN IF from = {} THEN [ok |-> FALSE, li |-> [li EXCEPT ![name] = 0]]
            ELSE LET m == CHOOSE m \in from : \A o \in from : m.start <= o.start
                 IN [ok |-> TRUE, li |-> [li EXCEPT ![name] = m.end]]

\* report.ts lines 49-51, the three tests in the order of the || chain
isInterestingLineTest(l, li) ==
    LET e == test("ERROR", l, li)
        f == test("FAILED", l, e.li)
    IN IF e.ok THEN e ELSE IF f.ok THEN f ELSE test("XFAIL", l, f.li)

\* report.ts lines 39-47
countInteresting(l, li) ==
    LET e == test("ERROR", l, li)
        f == test("FAILED", l, e.li)
        x == test("XFAIL", l, f.li)
    IN [err |-> IF e.ok THEN 1 ELSE 0, fail |-> IF f.ok THEN 1 ELSE 0,
        xfail |-> IF x.ok THEN 1 ELSE 0, li |-> x.li]

\* report.ts lines 69-77, over the lines of a text of single lines
RECURSIVE keepLoop(_, _, _)
keepLoop(t, li, acc) ==
    IF t = <<>> THEN [acc EXCEPT !.li = li]
    ELSE LET i == isInterestingLineTest(Head(t).ln, li)
             tl == truncateLine(Head(t).ln)
             c == countInteresting(tl, i.li)
         IN IF ~i.ok THEN keepLoop(Tail(t), i.li, acc)
            ELSE keepLoop(Tail(t), c.li,
                          [kept |-> Append(acc.kept, Block(tl, 1)),
                           err |-> acc.err + c.err, fail |-> acc.fail + c.fail,
                           xfail |-> acc.xfail + c.xfail, li |-> c.li])

\* report.ts lines 93-96, over the lines of a text of single lines
RECURSIVE skipLoop(_, _, _)
skipLoop(t, li, acc) ==
    IF t = <<>> THEN [kept |-> acc, li |-> li]
    ELSE LET s == test("SKIPPED", Head(t).ln, li)
         IN skipLoop(Tail(t), s.li, IF s.ok THEN acc ELSE Append(acc, Head(t)))

\* report.ts lines 79-88: the summary block attached to the kept lines
attachSummary(kept1, summary) ==
    IF summary.found
    THEN kept1 \o <<Block(<<>>, 1), Block(<<Tok("hdr")>>, 1)>>
               \o MapLines(summary.lines, truncateLine)
    ELSE kept1

\* report.ts lines 92-96: the SKIPPED filter, run on a large excerpt only
dropSkipped(joined, li) ==
    IF TextLen(joined) > TRIM_SKIPPED_THRESHOLD THEN skipLoop(joined, li, <<>>)
    ELSE [kept |-> joined, li |-> li]

\* report.ts lines 97-101
trimExcerpt(joined, noSkipped) ==
    truncateMiddle(IF TextLen(joined) > TRIM_SKIPPED_THRESHOLD /\ TextLen(noSkipped) > 0
                   THEN noSkipped ELSE joined,
                   MAX_JOB_EXCERPT_CHARS)

\* report.ts lines 104-112
excerptAndCounts(loop, excerpt, li) ==
    [result |-> [excerpt |-> excerpt,
                 counts |-> [error |-> loop.err, failed |-> loop.fail,
                             xfail |-> loop.xfail,
                             lines |-> IF TextLen(excerpt) > 0
                                       THEN NumLines(excerpt) ELSE 0,
                             chars |-> TextLen(excerpt)]],
     li |-> li]

afterSkipped(loop, joined, skip) ==
    excerptAndCounts(loop, trimExcerpt(joined, Join(skip.kept)), skip.li)

afterJoin(loop, joined) == afterSkipped(loop, joined, dropSkipped(joined, loop.li))

afterLoop(rawText, loop) ==
    afterJoin(loop, Join(attachSummary(loop.kept, extractShortSummaryBlock(rawText))))

\* report.ts lines 61-113: one call, from the lastIndex values li it finds
curateJobExcerptCall(rawText, li) ==
    afterLoop(rawText,
              keepLoop(rawText, li,
                       [kept |-> <<>>, err |-> 0, fail |-> 0, xfail |-> 0, li |-> li]))

MaxCalls == 3

\* The logs of the jobs curated one after the other, each a text of single
\* lines: "ERROR a ERROR", "FAILED abc", a summary block, a line of no
\* interest, and 26 long lines "ERROR SKIPPED ..." (more than 15000 characters)
PureInputs ==
    LET twice == <<Tok("ERROR"), Seg("sp", 1), Seg("w", 1), Seg("sp", 1), Tok("ERROR")>>
        failed == <<Tok("FAILED"), Seg("sp", 1), Seg("w", 3)>>
        plain == <<Seg("w", 10)>>
        long == <<Tok("ERROR"), Seg("sp", 1), Tok("SKIPPED"), Seg("sp", 1), Seg("w", 600)>>
    IN { <<Block(twice, 1)>>,
         <<Block(failed, 1)>>,
         <<Block(twice, 1), Block(plain, 1)>>,
         <<Block(<<Tok("hdr")>>, 1), Block(failed, 1)>>,
         <<Block(plain, 1)>>,
         [i \in 1..26 |-> Block(long, 1)] }

InitPure ==
    /\ lastIndex = NoMatchYet
    /\ history = <<>>

\* toRunExtract (report.ts lines 127-130): the next call of curateJobExcerpt
CurateCall(rawText) ==
    /\ Len(history) < MaxCalls
    /\ LET r == curateJobExcerptCall(rawText, lastIndex)
       IN /\ history' = Append(history, [raw |-> rawText, result |-> r.result])
          /\ lastIndex' = r.li

----------------------------------------------------------------------------
(* Claims about the calls of the curation *)

\* C13: curateJobExcerpt is a pure function of the raw text: two calls on the
\* same input, in any order and with any calls on other inputs between them,
\* return the same excerpt and the same counts; no state is carried from one
\* call to the next.
C13_CurationPure ==
    /\ lastIndex = NoMatchYet
    /\ \A i, j \in 1..Len(history) :
          history[i].raw = history[j].raw => history[i].result = history[j].result

C13_Witness ==
    /\ Len(history) = 3
    /\ history[1].raw = history[3].raw
    /\ history[2].raw # history[1].raw
    /\ history[1].result.counts.error > 0
    /\ history[2].result.counts.lines > 0

----------------------------------------------------------------------------
(* escapeXmlAttr (report.ts lines 286-293). A string is the sequence of    *)
(* its characters.                                                         *)

MaxLen == 3

\* String.prototype.replace(/ch/g, by): every occurrence of the character ch
RECURSIVE ReplaceAll(_, _, _)
ReplaceAll(s, ch, by) ==
    IF s = <<>> THEN <<>>
    ELSE (IF Head(s) = ch THEN by ELSE <<Head(s)>>) \o ReplaceAll(Tail(s), ch, by)

\* report.ts lines 289-292: the four replace calls in their order, each with
\* the replacement text the source gives it
Replacements ==
    << [ch |-> "&", by |-> <<"&">>],
       [ch |-> "\"", by |-> <<"\"">>],
       [ch |-> "<", by |-> <<"<">>],
       [ch |-> ">", by |-> <<">">>] >>

RECURSIVE ReplaceEach(_, _)
ReplaceEach(s, rs) ==
    IF rs = <<>> THEN s
    ELSE ReplaceEach(ReplaceAll(s, Head(rs).ch, Head(rs).by), Tail(rs))

\* report.ts lines 286-293
escapeXmlAttr(s) == ReplaceEach(s, Replacements)

\* report.comments.ts line 67: Build "alpha" & beta's <gamma>
EscapeTestInput ==
    <<"B", "u", "i", "l", "d", " ", "\"", "a", "l", "p", "h", "a", "\"", " ", "&", " ",
      "b", "e", "t", "a", "'", "s", " ", "<", "g", "a", "m", "m", "a", ">">>

EscapeAlphabet == {"&", "\"", "'", "<", ">", "a", ";"}

EscapeInputs ==
    UNION {[1..n -> EscapeAlphabet] : n \in 0..MaxLen} \cup {EscapeTestInput}

InitEscape ==
    /\ epc = "input"
    /\ estr \in EscapeInputs
    /\ eout = <<>>

\* one call of escapeXmlAttr
Escape ==
    /\ epc = "input"
    /\ eout' = escapeXmlAttr(estr)
    /\ epc' = "done"
    /\ UNCHANGED estr

----------------------------------------------------------------------------
(* Claims about escapeXmlAttr *)

\* the named entity of a character, the character itself when it has none
NamedEntity(c) ==
    CASE c = "&" -> <<"&", "a", "m", "p", ";">>
      [] c = "\"" -> <<"&", "q", "u", "o", "t", ";">>
      [] c = "'" -> <<"&", "a", "p", "o", "s", ";">>
      [] c = "<" -> <<"&", "l", "t", ";">>
      [] c = ">" -> <<"&", "g", "t", ";">>
      [] OTHER -> <<c>>

RECURSIVE Escaped(_)
Escaped(s) == IF s = <<>> THEN <<>> ELSE NamedEntity(Head(s)) \o Escaped(Tail(s))

\* C14: escapeXmlAttr replaces every occurrence of & " ' < > by its named
\* entity, the ampersand first, so that the ampersand of an inserted entity is
\* not escaped again: the result is the input with each of the five characters
\* replaced once; Build "alpha" & beta's <gamma> gives
\* Build &quot;alpha&quot; &amp; beta&apos;s &lt;gamma&gt;.
C14_EscapeXmlAttr == epc = "done" => eout = Escaped(estr)

----------------------------------------------------------------------------
(* The target resolvers: resolveTarget (resolve.ts lines 45-162) and the   *)
(* resolution written out in gather (gather.ts lines 201-248)              *)

Branches == {"main", "feat"}

\* the head commit of a branch on origin
HeadOf == [main |-> "m1", feat |-> "f1"]

\* null, undefined and "" are falsy
Falsy(x) == x = None \/ x = ""

\* resolve.ts lines 89-92: the branch of an upstream name such as origin/main,
\* given as the parts between its slashes (<<>>: empty output)
RECURSIVE JoinSlash(_)
JoinSlash(parts) ==
    IF parts = <<>> THEN ""
    ELSE IF Len(parts) = 1 THEN parts[1]
    ELSE parts[1] \o "/" \o JoinSlash(Tail(parts))

UpstreamBranch(up) ==
    IF up = <<>> THEN None
    ELSE IF Len(up) > 1 THEN JoinSlash(Tail(up))
    ELSE IF up[1] = "" THEN None ELSE up[1]

\* What `git rev-parse --abbrev-ref --symbolic-full-name @{u}` prints; the
\* command fails (ok FALSE) when there is no upstream or HEAD is detached
UpstreamOutputs ==
    { [ok |-> FALSE, parts |-> <<>>] }
      \cup { [ok |-> TRUE, parts |-> q] :
               q \in { <<"origin", "main">>, <<"origin", "feat">>, <<"origin", "">>,
                       <<"feat">> } }

\* What branchesForCommit returns: null on an error (ok FALSE), else the names
BranchLists ==
    { [ok |-> FALSE, names |-> <<>>] }
      \cup { [ok |-> TRUE, names |-> q] :
               q \in { <<>>, <<"main">>, <<"feat">>, <<"feat", "main">> } }

\* What a resolution is given and finds:
\*   explicitBranch  the --branch argument, None when absent
\*   locBranchRaw    what currentBranch returns
\*   upstream        the output of the upstream query
\*   onOrigin        the branches that exist on origin
\*   lsRemote, api   do `git ls-remote` and the GitHub API answer
\*   branches        what branchesForCommit returns for the local HEAD
\*   runSha          the head_sha of the latest workflow run of the branch
\*   pr              the open pull request of the branch, None when there is none
Environments ==
    { e \in [explicitBranch : Branches \cup {None},
             locBranchRaw : Branches \cup {"detached"},
             upstream : UpstreamOutputs,
             onOrigin : SUBSET Branches,
             lsRemote : BOOLEAN,
             api : BOOLEAN,
             branches : BranchLists,
             runSha : {None, "f0"},
             pr : {None, "#7"}] :
        /\ e.locBranchRaw = "detached" => ~e.upstream.ok
        /\ e.api <=> e.branches.ok
        /\ \A i \in 1..Len(e.branches.names) : e.branches.names[i] \in e.onOrigin
        /\ ~e.api => e.runSha = None /\ e.pr = None }

\* git.ts lines 54-68
remoteHeadSha(e, b) ==
    IF e.lsRemote /\ b \in e.onOrigin THEN HeadOf[b] ELSE None

\* github.ts lines 335-353
getBranchSha(e, b) ==
    IF e.api /\ b \in e.onOrigin THEN HeadOf[b] ELSE None

\* a || b
Or(a, b) == IF Falsy(a) THEN b ELSE a

NoTarget == [by |-> None, outcome |-> None, remoteBranch |-> None, headSha |-> None,
             prNumber |-> None]

Failure(by, code) ==
    [by |-> by, outcome |-> code, remoteBranch |-> None, headSha |-> None,
     prNumber |-> None]

\* resolve.ts line 127
MissingGuard_Off(headSha, remoteBranch) == FALSE
MissingGuard(headSha, remoteBranch) == Falsy(headSha) \/ Falsy(remoteBranch)

\* resolve.ts lines 98-125: the branch and the commit after the fallback steps
resolveBranchAndSha(e, upstreamBranch, localBranch) ==
    LET remoteBranch == IF Falsy(upstreamBranch) /\ ~Falsy(localBranch)
                        THEN localBranch ELSE upstreamBranch
        headSha == IF Falsy(remoteBranch) THEN None
                   ELSE Or(remoteHeadSha(e, remoteBranch), getBranchSha(e, remoteBranch))
        viaCommit == Falsy(headSha) /\ e.branches.ok /\ Len(e.branches.names) > 0
        branch2 == IF viaCommit THEN Or(e.branches.names[1], remoteBranch) ELSE remoteBranch
    IN [remoteBranch |-> branch2,
        headSha |-> IF viaCommit THEN getBranchSha(e, branch2) ELSE headSha]

\* resolve.ts lines 45-162; opts.explicitBranch is not read anywhere in it
resolveTarget(e) ==
    LET localBranch == IF ~Falsy(e.locBranchRaw) /\ e.locBranchRaw # "detached"
                       THEN e.locBranchRaw ELSE None
        upstreamBranch == IF e.upstream.ok THEN UpstreamBranch(e.upstream.parts) ELSE None
        r == resolveBranchAndSha(e, upstreamBranch, localBranch)
    IN IF MissingGuard(r.headSha, r.remoteBranch) THEN Failure("resolveTarget", "error")
       ELSE [by |-> "resolveTarget", outcome |-> "target",
             remoteBranch |-> r.remoteBranch, headSha |-> r.headSha, prNumber |-> e.pr]

\* gather.ts lines 201-248: the branch and the commit gather works on
gatherResolve(e) ==
    LET branch == e.locBranchRaw
        prNumber == IF Falsy(e.explicitBranch) /\ branch # "detached" THEN e.pr ELSE None
        targetBranch == Or(e.explicitBranch, IF branch # "detached" THEN branch ELSE None)
        sha == IF Falsy(targetBranch) THEN None
               ELSE Or(Or(remoteHeadSha(e, targetBranch), getBranchSha(e, targetBranch)),
                       e.runSha)
        sha2 == IF Falsy(sha) /\ Falsy(e.explicitBranch) /\ ~Falsy(prNumber)
                THEN HeadOf[targetBranch] ELSE sha
    IN IF Falsy(targetBranch) \/ Falsy(sha2) THEN Failure("gather", "exit 1")
       ELSE [by |-> "gather", outcome |-> "target", remoteBranch |-> targetBranch,
             headSha |-> sha2, prNumber |-> prNumber]

InitResolve ==
    /\ tpc = "input"
    /\ env \in Environments
    /\ resolved = NoTarget

\* one call of resolveTarget (runGatherCi, init)
ResolveTarget ==
    /\ tpc = "input"
    /\ resolved' = resolveTarget(env)
    /\ tpc' = "done"
    /\ UNCHANGED env

\* the resolution at the start of gather
GatherResolve ==
    /\ tpc = "input"
    /\ resolved' = gatherResolve(env)
    /\ tpc' = "done"
    /\ UNCHANGED env

----------------------------------------------------------------------------
(* Claims about the target resolvers *)

\* C16: called with an explicit branch b, the resolver returns a Target whose
\* remoteBranch is b and whose head commit is the remote head of b; the local
\* branch and its upstream do not choose the branch.
C16_ExplicitBranchWins ==
    (tpc = "done" /\ env.explicitBranch # None /\ resolved.outcome = "target") =>
        /\ resolved.remoteBranch = env.explicitBranch
        /\ env.explicitBranch \in env.onOrigin
        /\ resolved.headSha = HeadOf[env.explicitBranch]

\* C17: with no explicit branch, a detached local HEAD and no pull request the
\* resolution fails and returns no Target (gather ends with exit code 1); it
\* never goes on with a branch such as "main".
C17_DetachedFails ==
    (/\ tpc = "done"
     /\ env.explicitBranch = None
     /\ env.locBranchRaw = "detached"
     /\ env.pr = None) =>
        /\ resolved.outcome \in {"error", "exit 1"}
        /\ resolved.remoteBranch = None

\* C18: every Target returned by resolveTarget has a non-empty remoteBranch and
\* a non-empty head commit, whichever fallback step produced them; otherwise
\* resolveTarget fails with an error and returns nothing.
C18_NoPartialTarget ==
    (tpc = "done" /\ resolved.by = "resolveTarget") =>
        /\ resolved.outcome \in {"target", "error"}
        /\ resolved.outcome = "target" =>
              ~Falsy(resolved.remoteBranch) /\ ~Falsy(resolved.headSha)
        /\ resolved.outcome = "error" =>
              resolved.remoteBranch = None /\ resolved.headSha = None

\* a Target produced by the last fallback step, the branches of the local HEAD
C18_Witness ==
    /\ tpc = "done" /\ resolved.by = "resolveTarget"
    /\ resolved.outcome = "target"
    /\ env.locBranchRaw = "detached"
    /\ resolved.remoteBranch = env.branches.names[1]

----------------------------------------------------------------------------
(* The comment fetch: Gh.listCommentsRest (part_003 lines 493-718)         *)

\* part_003 line 535
perPage == 100

\* the largest number of pages a source holds
MaxPages == 2

Sources == {"issueComments", "reviewComments", "reviews"}

\* The number of items GitHub holds of one source: full pages, or full pages
\* and a page of three
Totals == { (k - 1) * perPage + r : k \in 1..MaxPages, r \in {0, 3} }

\* data.length of the answer to the request for a page
PageSize(total, page) ==
    IF total >= page * perPage THEN perPage
    ELSE IF total > (page - 1) * perPage THEN total - (page - 1) * perPage
    ELSE 0

\* A list is a sequence of blocks [page, n]: n items taken from that page, in
\* the order in which they were pushed; page 0 is a backfilled parent
RECURSIVE ListLength(_)
ListLength(list) ==
    IF list = <<>> THEN 0 ELSE list[1].n + ListLength(Tail(list))

\* part_003 lines 546-571, 590-622, 676-715: the page loop of one source
\* inside its try block. `old` items of the first page are older than sinceIso
\* and are filtered out (601, 691); the request for page failAt throws.
RECURSIVE fetchPages(_, _, _, _, _, _)
fetchPages(total, old, failAt, cap, page, acc) ==
    IF page = failAt THEN [list |-> acc, threw |-> TRUE]
    ELSE LET size == PageSize(total, page)
             kept == IF page = 1 THEN size - (IF old < size THEN old ELSE size) ELSE size
             acc2 == IF kept > 0 THEN Append(acc, [page |-> page, n |-> kept]) ELSE acc
         IN IF size < perPage \/ ListLength(acc2) >= cap
            THEN [list |-> acc2, threw |-> FALSE]
            ELSE fetchPages(total, old, failAt, cap, page + 1, acc2)

\* part_003 lines 624-660: the parent of a reply is fetched on its own and
\* pushed when it is not in the list; a failure of that request is ignored
backfillParents(sv, r) ==
    IF ~r.threw /\ sv.fullThreads /\ r.list # <<>> /\ sv.parent = "fetched"
    THEN [r EXCEPT !.list = Append(r.list, [page |-> 0, n |-> 1])]
    ELSE r

\* the list of one source and whether its catch block ran
fetchSource(src, sv) ==
    IF src = "issueComments"
    THEN fetchPages(sv.total[src], 0, sv.failAt[src], sv.cap, 1, <<>>)
    ELSE IF src = "reviewComments"
    THEN backfillParents(sv, fetchPages(sv.total[src], sv.old, sv.failAt[src], sv.cap, 1, <<>>))
    ELSE fetchPages(sv.total[src], sv.old, sv.failAt[src], sv.cap, 1, <<>>)

\* cap is opts.cap * 2 (comments.ts line 31)
FetchCaps == {100, 2000}

\* What GitHub holds and how it answers:
\*   total    the number of items of each source
\*   failAt   the page whose request throws, 0 when none does
\*   old      how many review items of the first page are older than sinceIso
\*   parent   the parent of a reply outside the list: none, fetched, or its
\*            request fails
Servers ==
    [total : [Sources -> Totals],
     failAt : [Sources -> 0..MaxPages],
     cap : FetchCaps,
     old : {0, 2},
     fullThreads : BOOLEAN,
     parent : {"none", "fetched", "fails"}]

NoLists == [src \in Sources |-> <<>>]
NoneThrew == [src \in Sources |-> FALSE]

InitFetch ==
    /\ lpc = "issueComments"
    /\ server \in Servers
    /\ lists = NoLists
    /\ threw = NoneThrew

FetchStep(src, next) ==
    /\ lpc = src
    /\ LET r == fetchSource(src, server)
       IN /\ lists' = [lists EXCEPT ![src] = r.list]
          /\ threw' = [threw EXCEPT ![src] = r.threw]
    /\ lpc' = next
    /\ UNCHANGED server

\* part_003 lines 538-571
FetchIssueComments == FetchStep("issueComments", "reviewComments")

\* part_003 lines 574-663
FetchReviewComments == FetchStep("reviewComments", "reviews")

\* part_003 lines 666-717
FetchReviews == FetchStep("reviews", "returned")

----------------------------------------------------------------------------
(* Claim about the comment fetch *)

\* C19: when a request of one source fails, on its first page or on a later
\* one, the list of that source is empty and the lists of the other two
\* sources are what they would be without the failure.
C19_SourceFaultTolerant ==
    lpc = "returned" =>
        \A src \in Sources : threw[src] =>
            /\ lists[src] = <<>>
            /\ \A other \in Sources \ {src} :
                  lists[other] =
                      fetchSource(other, [server EXCEPT !.failAt[src] = 0]).list

----------------------------------------------------------------------------
(* .awt/state.json under two writers: a watch instance and, beside it, a    *)
(* second watch instance of the repository (another worktree: same          *)
(* state.json, same state.json.tmp) or the pre-push hook (init.ts).         *)
(* A descriptor follows the file it opened, whatever its name becomes.      *)

HookTmp == "state.json.tmp.$$"
SharedNames == {StateFile, TmpFile, HookTmp}
NoName == 0

NoDisk == [names |-> [n \in SharedNames |-> NoName], data |-> <<>>]

\* state.json holding the text txt, nothing else in .awt
DiskWith(txt) ==
    [names |-> [n \in SharedNames |-> IF n = StateFile THEN 1 ELSE NoName],
     data |-> <<txt>>]

\* fs.readFile(name) / open(src): the content, or ENOENT
DkContent(d, name) ==
    IF d.names[name] = NoName THEN NoFile
    ELSE [exists |-> TRUE, text |-> d.data[d.names[name]]]

\* open(name, O_WRONLY|O_CREAT|O_TRUNC): an existing file is emptied in
\* place, a missing one is created
DkOpenTrunc(d, name) ==
    IF d.names[name] = NoName
    THEN [names |-> [d.names EXCEPT ![name] = Len(d.data) + 1],
          data |-> Append(d.data, <<>>)]
    ELSE [d EXCEPT !.data[d.names[name]] = <<>>]

\* write(fd, chunk) at offset 0 of the file behind the descriptor: what the
\* file holds beyond the chunk stays
DkWrite(d, fd, chunk) ==
    [d EXCEPT !.data[fd] = chunk \o SubSeq(@, Len(chunk) + 1, Len(@))]

\* rename(from, to)
DkRename(d, from, to) ==
    [d EXCEPT !.names[to] = d.names[from], !.names[from] = NoName]

Writers == {"watch", "peer"}
PeerKinds == {"watch", "hook", "hook_printf"}

\* The push the peer records (watch.ts 188-191, init.ts 54)
PeerPush == [sha |-> "c2", pushed_at |-> 1]

\* What each writer changes before it writes: the watch instance marks the CI
\* failure of its commit as seen (watch.ts 316-317), the second instance
\* records the push it detected on its branch (188-191)
Changed(w, mem) ==
    IF w = "watch" THEN MarkSeen(mem, "failure")
    ELSE [mem EXCEPT !.last_push = PeerPush]

NoProc == [pc |-> "off", kind |-> "watch", mem |-> EmptyState, fd |-> NoName]
NoProcs == [w \in Writers |-> NoProc]
IdleShared == disk = NoDisk /\ procs = NoProcs

\* watch.ts line 67: both instances have loaded the state file
InitShared ==
    \E seed \in {s \in SeedStates : s.last_push # NoPush}, k \in PeerKinds :
        /\ disk = DiskWith(JsonStringify(seed))
        /\ procs = [w \in Writers |->
                      [pc |-> "loaded", kind |-> IF w = "peer" THEN k ELSE "watch",
                       mem |-> seed, fd |-> NoName]]

\* watch.ts 316-318 or 188-192, state.ts line 23: the in-memory state is
\* changed, writeState opens state.json.tmp
TwOpen(w) ==
    /\ procs[w].pc = "loaded" /\ procs[w].kind = "watch"
    /\ disk' = DkOpenTrunc(disk, TmpFile)
    /\ procs' = [procs EXCEPT ![w].pc = "write", ![w].mem = Changed(w, @),
                              ![w].fd = disk'.names[TmpFile]]

\* state.ts line 23: the text is written through the descriptor
TwWrite(w) ==
    /\ procs[w].pc = "write"
    /\ disk' = DkWrite(disk, procs[w].fd, JsonStringify(procs[w].mem))
    /\ procs' = [procs EXCEPT ![w].pc = "rename", ![w].fd = NoName]

\* state.ts line 24: rename(tmp, p); ENOENT when the other instance has
\* renamed the temp file away
TwRename(w) ==
    /\ procs[w].pc = "rename"
    /\ IF disk.names[TmpFile] = NoName
       THEN /\ procs' = [procs EXCEPT ![w].pc = "threw"]
            /\ UNCHANGED disk
       ELSE /\ disk' = DkRename(disk, TmpFile, StateFile)
            /\ procs' = [procs EXCEPT ![w].pc = "returned"]

\* init.ts lines 46-54: the hook loads state.json ({} when missing or not
\* JSON) and sets last_push
HookLoad ==
    /\ procs["peer"].pc = "loaded" /\ procs["peer"].kind = "hook"
    /\ procs' = [procs EXCEPT !["peer"].pc = "dump",
                              !["peer"].mem =
                                  [StateOfContent(DkContent(disk, StateFile))
                                      EXCEPT !.last_push = PeerPush]]
    /\ UNCHANGED disk

\* init.ts lines 55-56: json.dump into the hook's own temp file
HookDump ==
    /\ procs["peer"].pc = "dump"
    /\ LET opened == DkOpenTrunc(disk, HookTmp)
       IN disk' = DkWrite(opened, opened.names[HookTmp],
                          JsonStringify(procs["peer"].mem))
    /\ procs' = [procs EXCEPT !["peer"].pc = "mv"]

\* init.ts line 58: mv "$tmp" "$state"
HookMv ==
    /\ procs["peer"].pc = "mv"
    /\ disk' = DkRename(disk, HookTmp, StateFile)
    /\ procs' = [procs EXCEPT !["peer"].pc = "returned"]

\* init.ts line 60 without python3: the shell opens "$state" for the
\* redirection, truncating it
HookRedirect ==
    /\ procs["peer"].pc = "loaded" /\ procs["peer"].kind = "hook_printf"
    /\ disk' = DkOpenTrunc(disk, StateFile)
    /\ procs' = [procs EXCEPT !["peer"].pc = "printf",
                              !["peer"].mem = [EmptyState EXCEPT !.last_push = PeerPush],
                              !["peer"].fd = disk'.names[StateFile]]

\* init.ts line 60: printf writes the text with last_push alone
HookPrintf ==
    /\ procs["peer"].pc = "printf"
    /\ disk' = DkWrite(disk, procs["peer"].fd, JsonStringify(procs["peer"].mem))
    /\ procs' = [procs EXCEPT !["peer"].pc = "returned", !["peer"].fd = NoName]

\* C28: state.json is never changed by two writers at once: at every moment
\* it holds a complete text, and once the watch instance and the other writer
\* (a second watch instance or the pre-push hook) have both finished, it holds
\* the change of each: the watcher's write has not put its stale copy over the
\* other writer's change, nor the other way round.
C28_NoLostUpdateNoCorruption ==
    /\ CompleteText(DkContent(disk, StateFile))
    /\ (\A w \in Writers : procs[w].pc \in {"returned", "threw"}) =>
          LET s == StateOfContent(DkContent(disk, StateFile))
          IN /\ s.last_push = PeerPush
             /\ s.last_ci_seen_for_sha = "c1" /\ s.last_ci_conclusion = "failure"

----------------------------------------------------------------------------
(* The classification of the runs of a commit: Gh.latestCiForSha            *)
(* (github.ts lines 221-264) and the two filters of runGatherCi             *)
(* (gather-ci.ts lines 72-78)                                               *)

Conclusions == {"failure", "timed_out", "cancelled", "success", "neutral", "skipped"}

\* A run as the listing maps it (github.ts 239-245): a conclusion, or null
\* (None), on a completed run; none on a run that is queued or in progress
ListedRunKinds ==
    [status : {"completed"}, conclusion : Conclusions \cup {None}]
        \cup [status : {"queued", "in_progress"}, conclusion : {None}]

ListedRuns == UNION { [1..n -> ListedRunKinds] : n \in 0..MaxRuns }

NoAggregate == [conclusion |-> None, inProgress |-> <<>>, completedFailing |-> <<>>]

InitClassify ==
    /\ apc = "start"
    /\ shaRuns \in ListedRuns
    /\ agg = NoAggregate

\* github.ts lines 246-263 and gather-ci.ts lines 72-78 on the same list
Classify ==
    /\ apc = "start"
    /\ agg' = [conclusion |-> latestCiForSha(shaRuns),
               inProgress |-> inProgress(shaRuns),
               completedFailing |-> completedFailing(shaRuns)]
    /\ apc' = "done"
    /\ UNCHANGED shaRuns

----------------------------------------------------------------------------
(* Claim about the classification *)

IsFailureLike(r) ==
    r.conclusion = "failure" \/ r.conclusion = "timed_out" \/ r.conclusion = "cancelled"

IsPending(r) == r.status # "completed"

\* C32: the runs picked as failing are the completed runs whose conclusion is
\* failure, timed_out or cancelled, the runs picked as pending are those whose
\* status is not completed (both in list order), and the aggregate conclusion
\* is unset when there is no run or a pending one, 'failure' when all are
\* completed and one is failure-like, 'success' when all concluded success,
\* 'neutral' otherwise.
C32_Classification ==
    apc = "done" =>
        LET rs == SeqRange(shaRuns)
            settled == shaRuns # <<>> /\ \A r \in rs : ~IsPending(r)
        IN /\ agg.completedFailing =
                 SelectSeq(shaRuns, LAMBDA r : ~IsPending(r) /\ IsFailureLike(r))
           /\ agg.inProgress = SelectSeq(shaRuns, IsPending)
           /\ agg.conclusion = None <=> ~settled
           /\ agg.conclusion = "failure" <=> (settled /\ \E r \in rs : IsFailureLike(r))
           /\ agg.conclusion = "success" <=>
                 (settled /\ \A r \in rs : r.conclusion = "success")
           /\ agg.conclusion = "neutral" <=>
                 (/\ settled
                  /\ \A r \in rs : ~IsFailureLike(r)
                  /\ \E r \in rs : r.conclusion # "success")

\* two completed runs, one skipped and one without a conclusion: neutral
C32_Witness ==
    /\ apc = "done" /\ Len(shaRuns) = 2
    /\ shaRuns[1].conclusion = "skipped" /\ shaRuns[2].conclusion = None
    /\ shaRuns[2].status = "completed" /\ agg.conclusion = "neutral"

----------------------------------------------------------------------------
(* The parent backfill of Gh.listCommentsRest (part_003 lines 623-660), from *)
(* the list the page loop of the review comments has produced                *)

\* part_003 line 632: parentsToFetch.slice(0, 200)
BackfillLimit == 200

\* the largest number of blocks of parents
MaxParentBlocks == 2

\* The distinct in_reply_to_id values of the list, in the order of their first
\* reply, as blocks [kind, n] of n parents of one kind:
\*   listed  the parent is in the list (created at or after sinceIso)
\*   old     the parent was created before sinceIso: the filter of line 601
\*           kept it out of the list
\*   gone    as old, and the request for it fails
ParentKinds == {"listed", "old", "gone"}
ParentCounts == {1, BackfillLimit - 1, BackfillLimit}
ParentBlocks == [kind : ParentKinds, n : ParentCounts]
ParentLists == UNION { [1..k -> ParentBlocks] : k \in 0..MaxParentBlocks }

\* how many parents of the kinds ks the blocks hold
RECURSIVE CountParents(_, _)
CountParents(blocks, ks) ==
    IF blocks = <<>> THEN 0
    ELSE (IF Head(blocks).kind \in ks THEN Head(blocks).n ELSE 0)
            + CountParents(Tail(blocks), ks)

\* Array.prototype.slice(0, k) on the parents
RECURSIVE slice(_, _)
slice(blocks, k) ==
    IF blocks = <<>> \/ k <= 0 THEN <<>>
    ELSE IF Head(blocks).n <= k
    THEN <<Head(blocks)>> \o slice(Tail(blocks), k - Head(blocks).n)
    ELSE <<[Head(blocks) EXCEPT !.n = k]>>

\* part_003 lines 624-631: every in_reply_to_id of the list, once
parentsToFetch(r) == r.parents

NoReviewList == [parents |-> <<>>, fullThreads |-> FALSE]
NoBackfill == [requests |-> 0, added |-> 0]

\* part_003 lines 623-660: one getReviewComment request for each of the first
\* 200 parents; the answer is pushed when its id is not in the list, a failed
\* request is ignored
backfillOf(r) ==
    IF ~r.fullThreads THEN NoBackfill
    ELSE LET asked == slice(parentsToFetch(r), BackfillLimit)
         IN [requests |-> CountParents(asked, ParentKinds),
             added |-> CountParents(asked, {"old"})]

InitBackfill ==
    /\ bpc = "input"
    /\ reviewList \in [parents : ParentLists, fullThreads : BOOLEAN]
    /\ backfill = NoBackfill

BackfillParents ==
    /\ bpc = "input"
    /\ backfill' = backfillOf(reviewList)
    /\ bpc' = "done"
    /\ UNCHANGED reviewList

\* C34: with fullThreads set and no failing request, when at most 200 parents
\* are missing from the list (created before sinceIso) each of them is fetched
\* and added; no more than 200 requests are made; with fullThreads unset none
\* is made and nothing is added.
C34_ParentsBackfilled ==
    bpc = "done" =>
        /\ backfill.requests <= BackfillLimit
        /\ ~reviewList.fullThreads => backfill = NoBackfill
        /\ (/\ reviewList.fullThreads
            /\ CountParents(reviewList.parents, {"gone"}) = 0
            /\ CountParents(reviewList.parents, {"old"}) <= BackfillLimit)
              => backfill.added = CountParents(reviewList.parents, {"old"})

----------------------------------------------------------------------------
(* The values the two report builders embed: buildCommentReport            *)
(* (report.comments.ts lines 7-61) and buildMarkdownXmlReport (report.ts   *)
(* lines 159-284). A report is followed for one value of one field; what   *)
(* is kept of it are the texts written for that value, place by place.     *)

ReportNames == {"comments", "failure"}
ReportFields == {"author", "body", "id", "url", "jobName", "branch"}

NoReportInput == [report |-> None, field |-> None, value |-> <<>>]

\* report.comments.ts lines 13-47
buildCommentReport(field, v) ==
    CASE field = "branch" -> <<v>>                                  \* 15
      [] field = "id" -> <<escapeXmlAttr(v), escapeXmlAttr(v)>>     \* 24, 33
      [] field = "author" -> <<escapeXmlAttr(v)>>                   \* 33
      [] field = "url" -> <<escapeXmlAttr(v)>>                      \* 35
      [] field = "body" -> <<v>>                                    \* 42
      [] OTHER -> <<>>

\* report.ts lines 185-239; the ids of runs and jobs are numbers
buildMarkdownXmlReport(field, v) ==
    CASE field = "branch" -> <<v, v>>                               \* 187, 215
      [] field = "author" -> <<v>>                                  \* 202
      [] field = "body" -> <<v>>                                    \* 201-202
      [] field = "url" -> <<v, v>>                                  \* 202, 221
      [] field = "jobName" -> <<escapeXmlAttr(v)>>                  \* 229
      [] OTHER -> <<>>

InitReport ==
    /\ xpc = "input"
    /\ rin \in [report : ReportNames, field : ReportFields, value : EscapeInputs]
    /\ rout = <<>>

BuildCommentReport ==
    /\ xpc = "input" /\ rin.report = "comments"
    /\ rout' = buildCommentReport(rin.field, rin.value)
    /\ xpc' = "done"
    /\ UNCHANGED rin

BuildMarkdownXmlReport ==
    /\ xpc = "input" /\ rin.report = "failure"
    /\ rout' = buildMarkdownXmlReport(rin.field, rin.value)
    /\ xpc' = "done"
    /\ UNCHANGED rin

\* C38: wherever a report holds the value of a free-text field (author, body,
\* id, URL, job name, branch name) it holds it escaped: each & " ' < > of the
\* value is written as its entity, none of them as it is.
C38_ValuesEscaped ==
    xpc = "done" => \A i \in 1..Len(rout) : rout[i] = Escaped(rin.value)

----------------------------------------------------------------------------
(* The failure bundle of the watch path: gatherFailures (ci.ts lines 5-84) *)
(* and truncateByKB (types.ts lines 211-218). A text is its length in      *)
(* bytes of UTF-8.                                                         *)

\* the largest number of failing jobs
MaxJobs == 3

KB == 1024

\* `(truncated to ${kb}KB tail)\n`
TruncatedPrefixBytes(kb) == 14 + Digits(kb) + 9

\* Buffer.subarray(length - limit).toString("utf8") when the slice starts with
\* `orphans` continuation bytes of a character cut in two: each of them is
\* decoded as U+FFFD, three bytes when the text is measured again
TailBytes(limit, orphans) == limit + 2 * orphans

\* types.ts lines 211-218
truncateByKB(bytes, orphans, kb) ==
    IF bytes <= kb * KB THEN bytes
    ELSE TruncatedPrefixBytes(kb) + TailBytes(kb * KB, orphans)

\* ci.ts line 55: "Unable to fetch job log. View online: https://github.com/
\* o/r/runs/1"
PlaceholderBytes == 67

\* The failing jobs in run and job order: the length of the log of each, how
\* its last perJobKB * 1024 bytes start, or a failed request
LogKinds ==
    { [fetched |-> TRUE, size |-> 100, orphans |-> 0],
      [fetched |-> TRUE, size |-> 0, orphans |-> 0],
      [fetched |-> TRUE, size |-> 1, orphans |-> 0],
      [fetched |-> TRUE, size |-> 1, orphans |-> 3],
      [fetched |-> TRUE, size |-> 1000000, orphans |-> 1],
      [fetched |-> FALSE, size |-> 0, orphans |-> 0] }

\* size: 100 for a short log, else the bytes beyond perJobKB * 1024
RawBytes(k, kb) == IF k.size = 100 THEN 100 ELSE kb * KB + k.size

FailingInputs ==
    [jobs : UNION {[1..n -> LogKinds] : n \in 0..MaxJobs},
     perJobKB : {1, 512},
     totalMB : {1, 5}]

NoFailing == [jobs |-> <<>>, perJobKB |-> 0, totalMB |-> 0]
NoBundle == [logs |-> <<>>]

\* ci.ts lines 47-58: the log entry of the job at place i
logEntry(f, i) ==
    [jobId |-> i,
     bytes |-> IF f.jobs[i].fetched
               THEN truncateByKB(RawBytes(f.jobs[i], f.perJobKB), f.jobs[i].orphans,
                                 f.perJobKB)
               ELSE PlaceholderBytes]

\* ci.ts lines 62-71: entries are taken until one would pass the total limit
RECURSIVE capLogs(_, _, _)
capLogs(entries, acc, totalLimitBytes) ==
    IF entries = <<>> THEN <<>>
    ELSE IF acc + Head(entries).bytes > totalLimitBytes THEN <<>>
    ELSE <<Head(entries)>>
            \o capLogs(Tail(entries), acc + Head(entries).bytes, totalLimitBytes)

\* ci.ts lines 5-84, from the failing jobs on
gatherFailures(f) ==
    [logs |-> capLogs([i \in 1..Len(f.jobs) |-> logEntry(f, i)], 0,
                      f.totalMB * KB * KB)]

InitBundle ==
    /\ fpc = "input"
    /\ failIn \in FailingInputs
    /\ bundle = NoBundle

GatherFailures ==
    /\ fpc = "input"
    /\ bundle' = gatherFailures(failIn)
    /\ fpc' = "done"
    /\ UNCHANGED failIn

RECURSIVE SumBytes(_)
SumBytes(ls) == IF ls = <<>> THEN 0 ELSE Head(ls).bytes + SumBytes(Tail(ls))

\* C39: every log text of the bundle is at most perJobKB * 1024 bytes long,
\* the texts together are at most totalMB * 1024 * 1024 bytes long, and the
\* logs are those of the first failing jobs, in run and job order.
C39_BundleBounded ==
    fpc = "done" =>
        /\ \A i \in 1..Len(bundle.logs) : bundle.logs[i].bytes <= failIn.perJobKB * KB
        /\ SumBytes(bundle.logs) <= failIn.totalMB * KB * KB
        /\ Len(bundle.logs) <= Len(failIn.jobs)
        /\ \A i \in 1..Len(bundle.logs) : bundle.logs[i].jobId = i

----------------------------------------------------------------------------
(* Specifications: each component with the others' variables held fixed *)

IdleWatch ==
    /\ pc = "off" /\ state = EmptyState /\ postPush = FALSE
    /\ notifiedNoPrForSha = None /\ pasteRes = None /\ now = 0
    /\ tallied = "none" /\ deliveries = 0 /\ caught = FALSE
    /\ idleSec = 0 /\ lastSig = None /\ idleStart = NoStart /\ lastNotifiedDormant = FALSE

\* What a step of one component leaves alone
notFsVars == <<watchVars, curateVars, gatherVars, commentVars, moreVars>>
notWatchVars == <<fsProcVars, curateVars, gatherVars, commentVars, moreVars>>
notCurateVars == <<fsVars, watchVars, gatherVars, commentVars, moreVars>>
notGatherVars == <<fsVars, watchVars, curateVars, commentVars, moreVars>>
notCommentVars == <<fsVars, watchVars, curateVars, gatherVars, moreVars>>
firstVars == <<fsVars, watchVars, curateVars, gatherVars, commentVars>>
notPureVars == <<firstVars, escapeVars, resolveVars, fetchVars, lateVars>>
notEscapeVars == <<firstVars, pureVars, resolveVars, fetchVars, lateVars>>
notResolveVars == <<firstVars, pureVars, escapeVars, fetchVars, lateVars>>
notFetchVars == <<firstVars, pureVars, escapeVars, resolveVars, lateVars>>

IdlePure == InitPure
IdleEscape == epc = "off" /\ estr = <<>> /\ eout = <<>>
IdleResolve == tpc = "off" /\ env = None /\ resolved = NoTarget
IdleFetch == lpc = "off" /\ server = None /\ lists = NoLists /\ threw = NoneThrew
IdleClassify == apc = "off" /\ shaRuns = <<>> /\ agg = NoAggregate
IdleBackfill == bpc = "off" /\ reviewList = NoReviewList /\ backfill = NoBackfill
IdleReport == xpc = "off" /\ rin = NoReportInput /\ rout = <<>>
IdleBundle == fpc = "off" /\ failIn = NoFailing /\ bundle = NoBundle
IdleLast == IdleClassify /\ IdleBackfill /\ IdleReport /\ IdleBundle
NoStretch == [sig |-> None, since |-> 0]
NoWorld == [head |-> None, ms |-> None, runs |-> <<>>]
IdleLate == slept = None /\ pushSeen = FALSE /\ stretch = NoStretch /\ world = NoWorld
            /\ IdleShared /\ IdleLast
IdleMore == IdlePure /\ IdleEscape /\ IdleResolve /\ IdleFetch /\ IdleLate

IdleCurate == cpc = "off" /\ raw = EmptyText /\ curated = NoExtract

IdleGather ==
    /\ gpc = "off" /\ args = NoArgs /\ runsSince = <<>> /\ queue = <<>>
    /\ listed = NoJobsListed /\ runExtracts = <<>> /\ calls = NoCalls
    /\ report = NoReport /\ stdout = FALSE /\ exitCode = 0

IdleComments ==
    kpc = "off" /\ fetched = NoFetch /\ opts = NoOptions /\ snapshot = NoSnapshot

IdleFs == fs = InitialFs(NoFile, NoFile) /\ InitFsProcs

NextFs ==
    \/ (\E v \in SeedStates : WsCall(v)) /\ UNCHANGED notFsVars
    \/ WsOpen /\ UNCHANGED notFsVars
    \/ WsWrite /\ UNCHANGED notFsVars
    \/ WsClose /\ UNCHANGED notFsVars
    \/ WsRename /\ UNCHANGED notFsVars
    \/ WsKill /\ UNCHANGED notFsVars
    \/ RsOpen /\ UNCHANGED notFsVars
    \/ RsRead /\ UNCHANGED notFsVars
    \/ RsEof /\ UNCHANGED notFsVars

InitState ==
    InitFs /\ IdleWatch /\ IdleCurate /\ IdleGather /\ IdleComments /\ IdleMore

SpecState == InitState /\ [][NextFs]_vars

InitRead ==
    InitFsAnyContent /\ IdleWatch /\ IdleCurate /\ IdleGather /\ IdleComments /\ IdleMore

NextRead ==
    \/ (\E v \in SeedStates : WsCall(v)) /\ UNCHANGED notFsVars
    \/ WsOpen /\ UNCHANGED notFsVars
    \/ WsWrite /\ UNCHANGED notFsVars
    \/ WsClose /\ UNCHANGED notFsVars
    \/ WsRename /\ UNCHANGED notFsVars
    \/ RsOpen /\ UNCHANGED notFsVars
    \/ RsRead /\ UNCHANGED notFsVars
    \/ RsEof /\ UNCHANGED notFsVars

SpecRead == InitRead /\ [][NextRead]_vars

NextWatch ==
    \/ (\E o \in Observations, wr \in BOOLEAN :
            Poll(StillPane, o.obs, o.pr, o.ms, o.ci, wr)) /\ UNCHANGED notWatchVars
    \/ (\E res \in {"ok", "retry", "throw"} : PasteRebase(res)) /\ UNCHANGED notWatchVars
    \/ (\E runs \in RunLists, ok \in BOOLEAN : Gather(runs, ok)) /\ UNCHANGED notWatchVars
    \/ (\E res \in {"ok", "retry", "throw"} : PasteFailure(res)) /\ UNCHANGED notWatchVars
    \/ (\E wr \in BOOLEAN : MarkFailure(wr)) /\ UNCHANGED notWatchVars
    \/ NotifySuccess /\ UNCHANGED notWatchVars
    \/ (\E wr \in BOOLEAN : MarkSuccess(wr)) /\ UNCHANGED notWatchVars
    \/ Sleep /\ UNCHANGED notWatchVars
    \/ Backoff /\ UNCHANGED notWatchVars
    \/ Restart /\ UNCHANGED notWatchVars

InitWatchLoop ==
    /\ \E cur \in SeedContents : fs = InitialFs(cur, NoFile)
    /\ InitFsProcs /\ InitWatch /\ IdleCurate /\ IdleGather /\ IdleComments /\ IdleMore

SpecWatch == InitWatchLoop /\ [][NextWatch]_vars

\* The watch loop started in a repository without a state file: every state
\* it meets was written by the loop itself.
InitFresh ==
    /\ fs = InitialFs(NoFile, NoFile)
    /\ InitFsProcs /\ InitWatchWith({"failure", "success", "posted"}, LongIdle)
    /\ IdleCurate /\ IdleGather /\ IdleComments /\ IdleMore

SpecFresh == InitFresh /\ [][NextWatch]_vars

\* The watch loop with the base interval of each cadence sleep recorded.
notLoopVars == <<fsProcVars, curateVars, gatherVars, commentVars,
                 pureVars, escapeVars, resolveVars, fetchVars>>

NextCadence ==
    \/ (\E o \in Observations, wr \in BOOLEAN :
            Poll(StillPane, o.obs, o.pr, o.ms, o.ci, wr)) /\ UNCHANGED <<notLoopVars, lateVars>>
    \/ (\E res \in {"ok", "retry", "throw"} : PasteRebase(res))
          /\ UNCHANGED <<notLoopVars, lateVars>>
    \/ (\E runs \in RunLists, ok \in BOOLEAN : Gather(runs, ok))
          /\ UNCHANGED <<notLoopVars, lateVars>>
    \/ (\E res \in {"ok", "retry", "throw"} : PasteFailure(res))
          /\ UNCHANGED <<notLoopVars, lateVars>>
    \/ (\E wr \in BOOLEAN : MarkFailure(wr)) /\ UNCHANGED <<notLoopVars, lateVars>>
    \/ NotifySuccess /\ UNCHANGED <<notLoopVars, lateVars>>
    \/ (\E wr \in BOOLEAN : MarkSuccess(wr)) /\ UNCHANGED <<notLoopVars, lateVars>>
    \/ Sleep /\ slept' = baseSec(postPush) /\ UNCHANGED <<notLoopVars, pushSeen, stretch, world, sharedVars,
                                                       lastVars>>
    \/ Backoff /\ UNCHANGED <<notLoopVars, lateVars>>
    \/ Restart /\ slept' = None /\ UNCHANGED <<notLoopVars, pushSeen, stretch, world, sharedVars,
                                                       lastVars>>

InitCadence ==
    /\ fs = InitialFs(NoFile, NoFile)
    /\ InitFsProcs /\ InitWatchWith({"failure"}, LongIdle)
    /\ IdleCurate /\ IdleGather /\ IdleComments /\ IdleMore

SpecCadence == InitCadence /\ [][NextCadence]_vars

\* The watch loop of a worktree without a pull request, in front of a pane
\* whose signature changes or stays, with what the pane has shown recorded.
QuietObservations == {o \in Observations : o.pr = 0}

NextDormant ==
    \/ (\E sig \in PaneSigs, o \in QuietObservations, wr \in BOOLEAN :
            /\ Poll(sig, o.obs, o.pr, o.ms, o.ci, wr)
            /\ pushSeen' = (pushSeen \/ (o.obs # None /\ o.obs # state.last_push.sha))
            /\ stretch' = IF sig # stretch.sig THEN [sig |-> sig, since |-> now]
                          ELSE stretch)
          /\ UNCHANGED <<notLoopVars, slept, world, sharedVars, lastVars>>
    \/ Sleep /\ UNCHANGED <<notLoopVars, lateVars>>
    \/ Backoff /\ UNCHANGED <<notLoopVars, lateVars>>
    \/ Restart /\ pushSeen' = (readState(fs).last_push # NoPush) /\ stretch' = NoStretch
          /\ UNCHANGED <<notLoopVars, slept, world, sharedVars, lastVars>>

InitDormant ==
    /\ \E cur \in SeedContents : fs = InitialFs(cur, NoFile)
    /\ InitFsProcs /\ InitWatchWith({"dormant"}, 0..MaxNow)
    /\ IdleCurate /\ IdleGather /\ IdleComments
    /\ IdlePure /\ IdleEscape /\ IdleResolve /\ IdleFetch
    /\ slept = None /\ pushSeen = (state.last_push # NoPush) /\ stretch = NoStretch
    /\ world = NoWorld /\ IdleShared /\ IdleLast

SpecDormant == InitDormant /\ [][NextDormant]_vars

notSharedVars == <<firstVars, pureVars, escapeVars, resolveVars, fetchVars,
                   slept, pushSeen, stretch, world, lastVars>>

NextShared ==
    \/ (\E w \in Writers : TwOpen(w)) /\ UNCHANGED notSharedVars
    \/ (\E w \in Writers : TwWrite(w)) /\ UNCHANGED notSharedVars
    \/ (\E w \in Writers : TwRename(w)) /\ UNCHANGED notSharedVars
    \/ HookLoad /\ UNCHANGED notSharedVars
    \/ HookDump /\ UNCHANGED notSharedVars
    \/ HookMv /\ UNCHANGED notSharedVars
    \/ HookRedirect /\ UNCHANGED notSharedVars
    \/ HookPrintf /\ UNCHANGED notSharedVars

InitSharedState ==
    /\ InitShared
    /\ IdleFs /\ IdleWatch /\ IdleCurate /\ IdleGather /\ IdleComments
    /\ IdlePure /\ IdleEscape /\ IdleResolve /\ IdleFetch
    /\ slept = None /\ pushSeen = FALSE /\ stretch = NoStretch /\ world = NoWorld
    /\ IdleLast

SpecShared == InitSharedState /\ [][NextShared]_vars

earlierVars == <<firstVars, pureVars, escapeVars, resolveVars, fetchVars,
                 slept, pushSeen, stretch, world, sharedVars>>
notClassifyVars == <<earlierVars, backfillVars, reportVars, bundleVars>>

NextClassify ==
    \/ Classify /\ UNCHANGED notClassifyVars

IdleEarlier ==
    /\ IdleFs /\ IdleWatch /\ IdleCurate /\ IdleGather /\ IdleComments
    /\ IdlePure /\ IdleEscape /\ IdleResolve /\ IdleFetch
    /\ slept = None /\ pushSeen = FALSE /\ stretch = NoStretch /\ world = NoWorld
    /\ IdleShared

InitClassifyCall == InitClassify /\ IdleEarlier /\ IdleBackfill /\ IdleReport /\ IdleBundle

SpecClassify == InitClassifyCall /\ [][NextClassify]_vars

notBackfillVars == <<earlierVars, classifyVars, reportVars, bundleVars>>

NextBackfill ==
    \/ BackfillParents /\ UNCHANGED notBackfillVars

InitBackfillCall == InitBackfill /\ IdleEarlier /\ IdleClassify /\ IdleReport /\ IdleBundle

SpecBackfill == InitBackfillCall /\ [][NextBackfill]_vars

notReportVars == <<earlierVars, classifyVars, backfillVars, bundleVars>>

NextReport ==
    \/ BuildCommentReport /\ UNCHANGED notReportVars
    \/ BuildMarkdownXmlReport /\ UNCHANGED notReportVars

InitReportCall == InitReport /\ IdleEarlier /\ IdleClassify /\ IdleBackfill /\ IdleBundle

SpecReport == InitReportCall /\ [][NextReport]_vars

notBundleVars == <<earlierVars, classifyVars, backfillVars, reportVars>>

NextBundle ==
    \/ GatherFailures /\ UNCHANGED notBundleVars

InitBundleCall == InitBundle /\ IdleEarlier /\ IdleClassify /\ IdleBackfill /\ IdleReport

SpecBundle == InitBundleCall /\ [][NextBundle]_vars

\* The watch loop in front of a settled world: the branch head stays, its pull
\* request is open, every run of the head commit is completed, and every call
\* (git, GitHub, tmux, the file system) answers. Each iteration is taken in turn.
SettledRuns == {rl \in RunLists : latestCiForSha(rl) # None}
Worlds == [head : Shas, ms : MergeableStates, runs : SettledRuns]

NextSettled ==
    \/ Poll(StillPane, world.head, 1, world.ms,
            IF world.ms = "clean" THEN latestCiForSha(world.runs) ELSE None, TRUE)
          /\ UNCHANGED <<notLoopVars, lateVars>>
    \/ (\E res \in {"ok", "retry"} : PasteRebase(res)) /\ UNCHANGED <<notLoopVars, lateVars>>
    \/ Gather(world.runs, TRUE) /\ UNCHANGED <<notLoopVars, lateVars>>
    \/ (\E res \in {"ok", "retry"} : PasteFailure(res)) /\ UNCHANGED <<notLoopVars, lateVars>>
    \/ MarkFailure(TRUE) /\ UNCHANGED <<notLoopVars, lateVars>>
    \/ NotifySuccess /\ UNCHANGED <<notLoopVars, lateVars>>
    \/ MarkSuccess(TRUE) /\ UNCHANGED <<notLoopVars, lateVars>>
    \/ Sleep /\ UNCHANGED <<notLoopVars, lateVars>>

InitSettled ==
    /\ \E cur \in SeedContents : fs = InitialFs(cur, NoFile)
    /\ InitFsProcs /\ InitWatchWith({"failure", "success"}, LongIdle)
    /\ IdleCurate /\ IdleGather /\ IdleComments
    /\ IdlePure /\ IdleEscape /\ IdleResolve /\ IdleFetch
    /\ slept = None /\ pushSeen = FALSE /\ stretch = NoStretch
    /\ world \in Worlds /\ IdleShared /\ IdleLast

SpecSettled == InitSettled /\ [][NextSettled]_vars /\ WF_vars(NextSettled)

NextCurate ==
    \/ Curate /\ UNCHANGED notCurateVars

InitCurateCall ==
    InitCurate /\ IdleFs /\ IdleWatch /\ IdleGather /\ IdleComments /\ IdleMore

SpecCurate == InitCurateCall /\ [][NextCurate]_vars

NextGather ==
    \/ GatherGate /\ UNCHANGED notGatherVars
    \/ (\E jobs \in JobLists :
            \E logs \in [1..Len(jobs) -> FetchOutcomes], ok \in BOOLEAN :
                FetchRunExtract(jobs, logs, ok)) /\ UNCHANGED notGatherVars
    \/ (\E res \in BOOLEAN : Summarize(res)) /\ UNCHANGED notGatherVars
    \/ (\E wr \in BOOLEAN : WriteReport(wr)) /\ UNCHANGED notGatherVars

InitGatherRun ==
    InitGather /\ IdleFs /\ IdleWatch /\ IdleCurate /\ IdleComments /\ IdleMore

SpecGather == InitGatherRun /\ [][NextGather]_vars

NextComments ==
    \/ GatherComments /\ UNCHANGED notCommentVars

InitCommentsCall ==
    InitComments /\ IdleFs /\ IdleWatch /\ IdleCurate /\ IdleGather /\ IdleMore

SpecComments == InitCommentsCall /\ [][NextComments]_vars

IdleFirst == IdleFs /\ IdleWatch /\ IdleCurate /\ IdleGather /\ IdleComments /\ IdleLate

NextPure ==
    \/ (\E rawText \in PureInputs : CurateCall(rawText)) /\ UNCHANGED notPureVars

InitPureCalls == InitPure /\ IdleFirst /\ IdleEscape /\ IdleResolve /\ IdleFetch

SpecPure == InitPureCalls /\ [][NextPure]_vars

NextEscape ==
    \/ Escape /\ UNCHANGED notEscapeVars

InitEscapeCall == InitEscape /\ IdleFirst /\ IdlePure /\ IdleResolve /\ IdleFetch

SpecEscape == InitEscapeCall /\ [][NextEscape]_vars

NextResolve ==
    \/ ResolveTarget /\ UNCHANGED notResolveVars
    \/ GatherResolve /\ UNCHANGED notResolveVars

InitResolveCall == InitResolve /\ IdleFirst /\ IdlePure /\ IdleEscape /\ IdleFetch

SpecResolve == InitResolveCall /\ [][NextResolve]_vars

NextFetch ==
    \/ FetchIssueComments /\ UNCHANGED notFetchVars
    \/ FetchReviewComments /\ UNCHANGED notFetchVars
    \/ FetchReviews /\ UNCHANGED notFetchVars

InitFetchCall == InitFetch /\ IdleFirst /\ IdlePure /\ IdleEscape /\ IdleResolve

SpecFetch == InitFetchCall /\ [][NextFetch]_vars

====
